---- MODULE Spec2Model ----
(***************************************************************************)
(* Registry validation of preOBD/openEMS: the DJB2-16 name hash, the       *)
(* validation passes over the parsed sensor / application / unit           *)
(* registries, and the run of tools/validate_registries.py that            *)
(* aggregates them.                                                        *)
(*                                                                         *)
(* Strings are sequences of code points.  Python integers are unbounded,   *)
(* so the hash accumulator is kept as a little-endian sequence of base     *)
(* 2^16 limbs and never truncated before the final mask.                   *)
(***************************************************************************)
EXTENDS Integers, Sequences, FiniteSets, TLC

VARIABLES
    pc,               \* position of the modelled call or run
    s,                \* djb2_hash: the argument
    t,                \* djb2_hash: a second argument, s with the case of some letters changed
    hash_value,       \* djb2_hash(s) as returned
    hash_other,       \* djb2_hash(t) as returned
    sensors,          \* parsed sensor registry (list of dicts)
    apps,             \* parsed application registry
    units,            \* parsed units registry
    hash_errors,      \* validate_hash_algorithm's return value
    collision_errors, \* validate_hash_collisions' return value
    ref_errors,       \* validate_index_references' errors
    ref_warnings,     \* validate_index_references' warnings
    type_errors,      \* validate_measurement_types' return value
    config_errors,    \* validate_config_h's return value
    all_errors,       \* main: aggregated errors
    all_warnings,     \* main: aggregated warnings
    raised,           \* the exception that left the call or run, "" when none
    ci,               \* main: args.ci
    check_config,     \* main: args.check_config
    status,           \* main: the status line printed by the summary
    exit_code,        \* main: process exit code, -1 while running
    completed,        \* main: the steps that have run to their end, in order
    config_h,         \* main: what validate_config_h found at src/config.h
    args_load,        \* configure: --load was given
    generate_thin_libs, \* configure: --generate-thin-libs was given
    document,         \* configure: the persisted document at the --load path
    config_inputs,    \* validate_pin_type_compatibility: the inputs of the document
    pin_errors,       \* validate_pin_type_compatibility's return value
    inputs,           \* configure: the input list in the internal format
    unified,          \* convert_to_unified_format(inputs) as returned
    round_trip,       \* convert_from_unified_format(unified) as returned
    original_timestamp, \* configure: metadata.timestamp of the loaded document
    config_modified,  \* configure: an edit or delete was carried out, or add chosen
    should_add_new,   \* configure: the add loop is to run
    now,              \* int(time.time())
    target,           \* src/config.h as text
    backup,           \* src/config.h.bak as text
    calibration_file, \* src/lib/generated/static_calibrations.h
    thin_libraries,   \* the thinned registries in src/lib/generated
    writable,         \* whether src/config.h can be read and written
    messages,         \* configure: the lines printed that the claims speak of
    platform,         \* configure: the target platform
    headers,          \* what the three registry headers on disk hold
    struct_content,   \* _parse_structs: the entries the entry pattern finds
    x_content,        \* _parse_x_macro_sensors: the invocations the pattern finds
    pstr_macros,      \* the string macros of the header, name to value
    enum_constants,   \* the enum constants of registry_enums.h, name to number
    registries,       \* what the parser returned, or the exception it raised
    pin_arg,          \* validate_pin: the pin string it is called with
    used_arg,         \* validate_pin: the pins already in use
    requirement_arg,  \* validate_pin: the requirement of the sensor
    pin_error         \* validate_pin's return value, "" for None

hashVars == <<s, t, hash_value, hash_other>>

regVars == <<sensors, apps, units>>

passVars == <<hash_errors, collision_errors, ref_errors, ref_warnings, type_errors,
              config_errors>>

runVars == <<all_errors, all_warnings, ci, check_config, status, exit_code, completed,
            config_h>>

toolVars == <<args_load, generate_thin_libs, document, config_inputs, pin_errors, inputs,
             unified, round_trip, original_timestamp, config_modified, should_add_new, now,
             target, backup, calibration_file, thin_libraries, writable, messages, platform>>

parseVars == <<headers, struct_content, x_content, pstr_macros, enum_constants, registries>>

pinVars == <<pin_arg, used_arg, requirement_arg, pin_error>>

vars == <<pc, hashVars, regVars, passVars, runVars, raised, toolVars, parseVars, pinVars>>

(***************************************************************************)
(* Bounds of the model.                                                    *)
(***************************************************************************)
MaxLen == 3

\* inputs a config.h block declares
MaxConfigInputs == 2

\* characters of a pin string
MaxPinLen == 3

\* inputs of a finalized input list
MaxInputs == 2

\* entries in the three registries together, per validation pass
MaxHashEntries == 3

MaxCollisionEntries == 3

MaxRefEntries == 3

MaxRunEntries == 2

(***************************************************************************)
(* Code points.  Alphabet is the bounded character set the hash inputs are *)
(* drawn from: lower and upper case letters, a digit and an underscore.    *)
(***************************************************************************)
Alphabet == {97, 65, 122, 90, 54, 95}

IsLower(c) == c >= 97 /\ c <= 122

IsUpper(c) == c >= 65 /\ c <= 90

\* "Max6675" and "MAX6675", the spec's example pair.
Max6675 == <<77, 97, 120, 54, 54, 55, 53>>

MAX6675 == <<77, 65, 88, 54, 54, 55, 53>>

(***************************************************************************)
(* str.upper() on ASCII text: lower-case letters move to upper case, every *)
(* other character is kept.                                                *)
(***************************************************************************)
UpperChar(c) == IF IsLower(c) THEN c - 32 ELSE c

Upper(str) == [i \in 1..Len(str) |-> UpperChar(str[i])]

(***************************************************************************)
(* Unbounded non-negative integers as little-endian base-2^16 limbs.       *)
(***************************************************************************)
Limb == 65536

RECURSIVE MulAdd(_, _, _)
\* limbs * m + carry
MulAdd(limbs, m, carry) ==
    IF limbs = <<>>
    THEN IF carry = 0 THEN <<>> ELSE <<carry % Limb>> \o MulAdd(<<>>, m, carry \div Limb)
    ELSE LET v == Head(limbs) * m + carry
         IN <<v % Limb>> \o MulAdd(Tail(limbs), m, v \div Limb)

RECURSIVE BigAdd(_, _, _)
\* a + b + carry
BigAdd(a, b, carry) ==
    IF a = <<>> /\ b = <<>>
    THEN IF carry = 0 THEN <<>> ELSE <<carry>>
    ELSE LET x == IF a = <<>> THEN 0 ELSE Head(a)
             y == IF b = <<>> THEN 0 ELSE Head(b)
             v == x + y + carry
         IN <<v % Limb>> \o BigAdd(IF a = <<>> THEN a ELSE Tail(a),
                                   IF b = <<>> THEN b ELSE Tail(b),
                                   v \div Limb)

\* x << 5
ShiftLeft5(x) == MulAdd(x, 32, 0)

\* x & 0xFFFF
Low16(x) == IF x = <<>> THEN 0 ELSE Head(x)

(***************************************************************************)
(* djb2_hash.                                                              *)
(***************************************************************************)
\* hash_value = 5381
HashStart == <<5381>>

\* hash_value = ((hash_value << 5) + hash_value) + ord(c)
HashStepNoAdd(h, c) == BigAdd(ShiftLeft5(h), <<c>>, 0)

HashStep(h, c) == BigAdd(BigAdd(ShiftLeft5(h), h, 0), <<c>>, 0)

RECURSIVE HashLoop(_, _, _)
\* for c in str[i..]: hash_value = HashStep(hash_value, c)
HashLoop(h, str, i) ==
    IF i > Len(str) THEN h ELSE HashLoop(HashStep(h, str[i]), str, i + 1)

djb2_hash_keeps_case(str) ==
    IF str = <<>> THEN 0 ELSE Low16(HashLoop(HashStart, str, 1))

djb2_hash(str) ==
    IF str = <<>> THEN 0 ELSE Low16(HashLoop(HashStart, Upper(str), 1))

(***************************************************************************)
(* Registry entries, as _parse_structs builds them: a dict per struct      *)
(* with the fields the struct literal names.  The parser's string macros   *)
(* are non-empty ("[^"]+"), so the empty sequence stands for a name or     *)
(* alias that is None (a nullptr field; .get() reads a missing key the     *)
(* same way); NoHash and NoType stand for a key the struct literal does    *)
(* not carry, which a subscript answers with KeyError; NoSensor for a      *)
(* defaultSensor that is None or not there.  The messages read name and    *)
(* alias by subscript: the modelled entries carry both keys.               *)
(***************************************************************************)
NoName == <<>>

NoHash == -1

NoSensor == -1

NoType == "<absent>"

Sensor(i, n, h, impl, mt) ==
    [index |-> i, name |-> n, nameHash |-> h, is_implemented |-> impl,
     measurementType |-> mt]

App(i, n, h, impl, ds, mt) ==
    [index |-> i, name |-> n, nameHash |-> h, is_implemented |-> impl,
     defaultSensor |-> ds, expectedMeasurementType |-> mt]

Unit(i, n, h, a, ah) ==
    [index |-> i, name |-> n, nameHash |-> h, alias |-> a, aliasHash |-> ah,
     is_implemented |-> n # NoName]

(***************************************************************************)
(* Findings.  A message is kept as the values its f-string interpolates:   *)
(* kind is the message's fixed text, index and name the entry it is about, *)
(* other the second name of a collision, hash / expected the hash values,  *)
(* sensor the referenced sensor index, want / have the measurement types.  *)
(***************************************************************************)
Msg(kind, index, name, other, hash, expected, sensor, want, have) ==
    [kind |-> kind, index |-> index, name |-> name, other |-> other, hash |-> hash,
     expected |-> expected, sensor |-> sensor, want |-> want, have |-> have]

HashMismatchMsg(kind, e, expected, found) ==
    Msg(kind, e.index, e.name, NoName, found, expected, NoSensor, "", "")

AliasMismatchMsg(e, expected) ==
    Msg("Alias hash mismatch for UNIT", e.index, e.alias, NoName, e.aliasHash, expected,
        NoSensor, "", "")

CollisionMsg(kind, name, first, h) ==
    Msg(kind, -1, name, first, h, -1, NoSensor, "", "")

RefMsg(kind, a) ==
    Msg(kind, a.index, a.name, NoName, -1, -1, a.defaultSensor, "", "")

TypeMsg(a, sn) ==
    Msg("Measurement type mismatch in APP", a.index, a.name, NoName, -1, -1,
        a.defaultSensor, a.expectedMeasurementType, sn.measurementType)

\* what a call hands back: its lists, or the exception that left it
Returned(errs, warns) == [errors |-> errs, warnings |-> warns, raised |-> ""]

Raised(exc) == [errors |-> <<>>, warnings |-> <<>>, raised |-> exc]

(***************************************************************************)
(* validate_hash_algorithm.                                                *)
(***************************************************************************)
RECURSIVE HashNameLoop(_, _, _, _)
\* for entry in entries: if entry.get("name"): compare djb2_hash(name) with entry["nameHash"]
HashNameLoop(kind, entries, i, errors) ==
    IF i > Len(entries) THEN Returned(errors, <<>>)
    ELSE LET e == entries[i]
         IN IF e.name = NoName THEN HashNameLoop(kind, entries, i + 1, errors)
            ELSE IF e.nameHash = NoHash THEN Raised("KeyError")
            ELSE IF djb2_hash(e.name) # e.nameHash
            THEN HashNameLoop(kind, entries, i + 1,
                     Append(errors, HashMismatchMsg(kind, e, djb2_hash(e.name), e.nameHash)))
            ELSE HashNameLoop(kind, entries, i + 1, errors)

RECURSIVE HashUnitLoop(_, _, _)
\* for unit in units: the name as above, then the alias against unit["aliasHash"]
HashUnitLoop(entries, i, errors) ==
    IF i > Len(entries) THEN Returned(errors, <<>>)
    ELSE LET e == entries[i]
             nameRaises == e.name # NoName /\ e.nameHash = NoHash
             nameErr == IF e.name # NoName /\ djb2_hash(e.name) # e.nameHash
                        THEN <<HashMismatchMsg("Hash mismatch for UNIT", e,
                                               djb2_hash(e.name), e.nameHash)>>
                        ELSE <<>>
             aliasRaises == e.alias # NoName /\ e.aliasHash = NoHash
             aliasErr == IF e.alias # NoName /\ djb2_hash(e.alias) # e.aliasHash
                         THEN <<AliasMismatchMsg(e, djb2_hash(e.alias))>>
                         ELSE <<>>
         IN IF nameRaises \/ aliasRaises THEN Raised("KeyError")
            ELSE HashUnitLoop(entries, i + 1, errors \o nameErr \o aliasErr)

validate_hash_algorithm_names_only(ss, aa, uu) ==
    LET r1 == HashNameLoop("Hash mismatch for SENSOR", ss, 1, <<>>)
        r2 == HashNameLoop("Hash mismatch for APP", aa, 1, r1.errors)
        r3 == HashNameLoop("Hash mismatch for UNIT", uu, 1, r2.errors)
    IN IF r1.raised # "" THEN r1 ELSE IF r2.raised # "" THEN r2 ELSE r3

validate_hash_algorithm(ss, aa, uu) ==
    LET r1 == HashNameLoop("Hash mismatch for SENSOR", ss, 1, <<>>)
        r2 == HashNameLoop("Hash mismatch for APP", aa, 1, r1.errors)
        r3 == HashUnitLoop(uu, 1, r2.errors)
    IN IF r1.raised # "" THEN r1 ELSE IF r2.raised # "" THEN r2 ELSE r3

(***************************************************************************)
(* validate_hash_collisions.  hashes is the dict of the hashes seen so     *)
(* far in the registry being walked, each with the name first stored.      *)
(***************************************************************************)
Put(hashes, h, name) == [x \in DOMAIN hashes \cup {h} |-> IF x = h THEN name ELSE hashes[x]]

EmptyDict == [x \in {} |-> NoName]

RECURSIVE CollisionLoopImplemented(_, _, _, _, _)
CollisionLoopImplemented(kind, entries, i, hashes, errors) ==
    IF i > Len(entries) THEN Returned(errors, <<>>)
    ELSE LET e == entries[i]
             h == e.nameHash
         IN IF ~e.is_implemented
            THEN CollisionLoopImplemented(kind, entries, i + 1, hashes, errors)
            ELSE IF h = NoHash THEN Raised("KeyError")
            ELSE IF h \in DOMAIN hashes
            THEN CollisionLoopImplemented(kind, entries, i + 1, hashes,
                     Append(errors, CollisionMsg(kind, e.name, hashes[h], h)))
            ELSE CollisionLoopImplemented(kind, entries, i + 1, Put(hashes, h, e.name), errors)

RECURSIVE CollisionLoop(_, _, _, _, _)
\* for entry in entries: skip the unnamed; report a hash already in hashes, else store it
CollisionLoop(kind, entries, i, hashes, errors) ==
    IF i > Len(entries) THEN Returned(errors, <<>>)
    ELSE LET e == entries[i]
             h == e.nameHash
         IN IF e.name = NoName THEN CollisionLoop(kind, entries, i + 1, hashes, errors)
            ELSE IF h = NoHash THEN Raised("KeyError")
            ELSE IF h \in DOMAIN hashes
            THEN CollisionLoop(kind, entries, i + 1, hashes,
                     Append(errors, CollisionMsg(kind, e.name, hashes[h], h)))
            ELSE CollisionLoop(kind, entries, i + 1, Put(hashes, h, e.name), errors)

\* one unit: the name hash against hashes, then the alias hash against the updated hashes
UnitStepNamesOnly(e, hashes, errors) ==
    LET h_name == e.nameHash
        nameHit == h_name \in DOMAIN hashes
    IN [hashes |-> IF nameHit THEN hashes ELSE Put(hashes, h_name, e.name),
        errors |-> IF nameHit
                   THEN Append(errors, CollisionMsg("Unit hash collision", e.name,
                                                    hashes[h_name], h_name))
                   ELSE errors]

UnitStep(e, hashes, errors) ==
    LET h_name == e.nameHash
        h_alias == e.aliasHash
        nameHit == h_name \in DOMAIN hashes
        hashes1 == IF nameHit THEN hashes ELSE Put(hashes, h_name, e.name)
        errors1 == IF nameHit
                   THEN Append(errors, CollisionMsg("Unit hash collision", e.name,
                                                    hashes[h_name], h_name))
                   ELSE errors
        aliasHit == h_alias \in DOMAIN hashes1 /\ h_alias # h_name
    IN [hashes |-> IF aliasHit THEN hashes1 ELSE Put(hashes1, h_alias, e.alias),
        errors |-> IF aliasHit
                   THEN Append(errors1, CollisionMsg("Unit alias hash collision", e.alias,
                                                     hashes1[h_alias], h_alias))
                   ELSE errors1]

RECURSIVE UnitCollisionLoop(_, _, _, _)
UnitCollisionLoop(entries, i, hashes, errors) ==
    IF i > Len(entries) THEN Returned(errors, <<>>)
    ELSE LET e == entries[i]
         IN IF e.name = NoName THEN UnitCollisionLoop(entries, i + 1, hashes, errors)
            ELSE IF e.nameHash = NoHash \/ e.aliasHash = NoHash THEN Raised("KeyError")
            ELSE LET st == UnitStep(e, hashes, errors)
                 IN UnitCollisionLoop(entries, i + 1, st.hashes, st.errors)

validate_hash_collisions(ss, aa, uu) ==
    LET r1 == CollisionLoop("Sensor hash collision", ss, 1, EmptyDict, <<>>)
        r2 == CollisionLoop("Application hash collision", aa, 1, EmptyDict, r1.errors)
        r3 == UnitCollisionLoop(uu, 1, EmptyDict, r2.errors)
    IN IF r1.raised # "" THEN r1 ELSE IF r2.raised # "" THEN r2 ELSE r3

(***************************************************************************)
(* validate_index_references and validate_measurement_types.               *)
(***************************************************************************)
\* {s['index'] for s in sensors}
SensorIndices(ss) == {ss[i].index : i \in 1..Len(ss)}

RECURSIVE FindSensorLast(_, _, _)
FindSensorLast(ss, idx, i) ==
    IF i > Len(ss) THEN 0
    ELSE LET later == FindSensorLast(ss, idx, i + 1)
         IN IF later # 0 THEN later ELSE IF ss[i].index = idx THEN i ELSE 0

RECURSIVE FindSensor(_, _, _)
\* next((s for s in sensors if s['index'] == idx), None): the position, 0 for None
FindSensor(ss, idx, i) ==
    IF i > Len(ss) THEN 0
    ELSE IF ss[i].index = idx THEN i ELSE FindSensor(ss, idx, i + 1)

RECURSIVE IndexRefLoopAllWarnings(_, _, _, _, _)
IndexRefLoopAllWarnings(aa, ss, i, errors, warnings) ==
    IF i > Len(aa) THEN Returned(errors, warnings)
    ELSE LET a == aa[i]
         IN IF ~a.is_implemented THEN IndexRefLoopAllWarnings(aa, ss, i + 1, errors, warnings)
            ELSE IF a.defaultSensor \notin SensorIndices(ss)
                    \/ ~ss[FindSensor(ss, a.defaultSensor, 1)].is_implemented
            THEN IndexRefLoopAllWarnings(aa, ss, i + 1, errors,
                     Append(warnings, RefMsg("references unimplemented SENSOR", a)))
            ELSE IndexRefLoopAllWarnings(aa, ss, i + 1, errors, warnings)

RECURSIVE IndexRefLoop(_, _, _, _, _)
IndexRefLoop(aa, ss, i, errors, warnings) ==
    IF i > Len(aa) THEN Returned(errors, warnings)
    ELSE LET a == aa[i]
         IN IF ~a.is_implemented THEN IndexRefLoop(aa, ss, i + 1, errors, warnings)
            ELSE IF a.defaultSensor \notin SensorIndices(ss)
            THEN IndexRefLoop(aa, ss, i + 1,
                     Append(errors, RefMsg("references non-existent SENSOR", a)), warnings)
            ELSE IF ~ss[FindSensor(ss, a.defaultSensor, 1)].is_implemented
            THEN IndexRefLoop(aa, ss, i + 1, errors,
                     Append(warnings, RefMsg("references unimplemented SENSOR", a)))
            ELSE IndexRefLoop(aa, ss, i + 1, errors, warnings)

validate_index_references(aa, ss) == IndexRefLoop(aa, ss, 1, <<>>, <<>>)

RECURSIVE TypeLoopAnySensor(_, _, _, _)
TypeLoopAnySensor(aa, ss, i, errors) ==
    IF i > Len(aa) THEN Returned(errors, <<>>)
    ELSE LET a == aa[i]
             p == FindSensor(ss, a.defaultSensor, 1)
         IN IF ~a.is_implemented \/ p = 0
            THEN TypeLoopAnySensor(aa, ss, i + 1, errors)
            ELSE IF a.expectedMeasurementType = NoType \/ ss[p].measurementType = NoType
            THEN Raised("KeyError")
            ELSE IF a.expectedMeasurementType # ss[p].measurementType
            THEN TypeLoopAnySensor(aa, ss, i + 1, Append(errors, TypeMsg(a, ss[p])))
            ELSE TypeLoopAnySensor(aa, ss, i + 1, errors)

RECURSIVE TypeLoop(_, _, _, _)
TypeLoop(aa, ss, i, errors) ==
    IF i > Len(aa) THEN Returned(errors, <<>>)
    ELSE LET a == aa[i]
             p == FindSensor(ss, a.defaultSensor, 1)
         IN IF ~a.is_implemented \/ p = 0 \/ ~ss[p].is_implemented
            THEN TypeLoop(aa, ss, i + 1, errors)
            ELSE IF a.expectedMeasurementType = NoType \/ ss[p].measurementType = NoType
            THEN Raised("KeyError")
            ELSE IF a.expectedMeasurementType # ss[p].measurementType
            THEN TypeLoop(aa, ss, i + 1, Append(errors, TypeMsg(a, ss[p])))
            ELSE TypeLoop(aa, ss, i + 1, errors)

validate_measurement_types(aa, ss) == TypeLoop(aa, ss, 1, <<>>)

(***************************************************************************)
(* validate_config_h.  The file is kept as what the function's searches    *)
(* find in it: whether it exists, whether it holds the USE_STATIC_CONFIG   *)
(* block, the NUM_CONFIGURED_INPUTS value (NoCount when not defined) and,  *)
(* per input, the pin (NoPin when not defined) and the application and     *)
(* sensor indices (NoDefine when not defined).                             *)
(***************************************************************************)
NoCount == -1

NoDefine == -1

NoPin == ""

ConfigFile(found, block, count, defs) ==
    [found |-> found, block |-> block, count |-> count, inputs |-> defs]

Input(pin, app, sensor) == [pin |-> pin, app |-> app, sensor |-> sensor]

ConfigMsg(kind, i, pin, idx) == Msg(kind, i, NoName, NoName, -1, -1, idx, pin, "")

\* the defines of INPUT_i, all absent when the block does not mention the input
InputDefines(file, i) ==
    IF i + 1 <= Len(file.inputs) THEN file.inputs[i + 1] ELSE Input(NoPin, NoDefine, NoDefine)

\* {a['index'] for a in apps}
EntryIndices(entries) == {entries[i].index : i \in 1..Len(entries)}

RECURSIVE ConfigLoopForgetsPins(_, _, _, _, _, _)
\* the loop without pins.append(pin)
ConfigLoopForgetsPins(file, ss, aa, i, pins, errors) ==
    IF i >= file.count THEN errors
    ELSE LET d == InputDefines(file, i)
         IN ConfigLoopForgetsPins(file, ss, aa, i + 1, pins,
               errors
               \o (IF d.pin = NoPin
                   THEN <<ConfigMsg("config.h: INPUT_PIN is not defined", i, NoPin, NoSensor)>>
                   ELSE <<>>)
               \o (IF d.app = NoDefine
                   THEN <<ConfigMsg("config.h: INPUT_APPLICATION is not defined", i, NoPin,
                                    NoSensor)>>
                   ELSE IF d.app \notin EntryIndices(aa)
                   THEN <<ConfigMsg("config.h: references non-existent APPLICATION", i,
                                    NoPin, d.app)>>
                   ELSE <<>>)
               \o (IF d.sensor = NoDefine
                   THEN <<ConfigMsg("config.h: INPUT_SENSOR is not defined", i, NoPin,
                                    NoSensor)>>
                   ELSE IF d.sensor \notin EntryIndices(ss)
                   THEN <<ConfigMsg("config.h: references non-existent SENSOR", i,
                                    NoPin, d.sensor)>>
                   ELSE <<>>))

RECURSIVE ConfigLoop(_, _, _, _, _, _)
\* for i in range(num_inputs): the pin, the application index, the sensor index
ConfigLoop(file, ss, aa, i, pins, errors) ==
    IF i >= file.count THEN errors
    ELSE LET d == InputDefines(file, i)
             pinErr == IF d.pin = NoPin
                       THEN <<ConfigMsg("config.h: INPUT_PIN is not defined", i, NoPin, NoSensor)>>
                       ELSE IF d.pin \in pins
                       THEN <<ConfigMsg("config.h: Duplicate pin assignment", i, d.pin, NoSensor)>>
                       ELSE <<>>
             appErr == IF d.app = NoDefine
                       THEN <<ConfigMsg("config.h: INPUT_APPLICATION is not defined", i, NoPin,
                                        NoSensor)>>
                       ELSE IF d.app \notin EntryIndices(aa)
                       THEN <<ConfigMsg("config.h: references non-existent APPLICATION", i,
                                        NoPin, d.app)>>
                       ELSE <<>>
             sensorErr == IF d.sensor = NoDefine
                          THEN <<ConfigMsg("config.h: INPUT_SENSOR is not defined", i, NoPin,
                                           NoSensor)>>
                          ELSE IF d.sensor \notin EntryIndices(ss)
                          THEN <<ConfigMsg("config.h: references non-existent SENSOR", i,
                                           NoPin, d.sensor)>>
                          ELSE <<>>
         IN ConfigLoop(file, ss, aa, i + 1,
                       IF d.pin = NoPin THEN pins ELSE pins \cup {d.pin},
                       errors \o pinErr \o appErr \o sensorErr)

validate_config_h(file, ss, aa) ==
    IF ~file.found
    THEN <<ConfigMsg("config.h file not found", -1, NoPin, NoSensor)>>
    ELSE IF ~file.block
    THEN <<ConfigMsg("Could not find the USE_STATIC_CONFIG block in config.h", -1, NoPin,
                     NoSensor)>>
    ELSE IF file.count = NoCount
    THEN <<ConfigMsg("NUM_CONFIGURED_INPUTS is not defined in the static config block.", -1,
                     NoPin, NoSensor)>>
    ELSE ConfigLoop(file, ss, aa, 0, {}, <<>>)

(***************************************************************************)
(* Pin designators (preobd_config/platform.py).  A pin string is a         *)
(* sequence of code points, as the names are.                              *)
(***************************************************************************)
I2C == <<73, 50, 67>>

\* str.strip(): leading and trailing white space goes
IsSpace(c) == c \in {32, 9, 10, 13}

IsDigit(c) == c >= 48 /\ c <= 57

RECURSIVE LStrip(_)
LStrip(str) == IF str # <<>> /\ IsSpace(str[1]) THEN LStrip(Tail(str)) ELSE str

RECURSIVE RStrip(_)
RStrip(str) ==
    IF str # <<>> /\ IsSpace(str[Len(str)])
    THEN RStrip(SubSeq(str, 1, Len(str) - 1))
    ELSE str

Strip(str) == RStrip(LStrip(str))

\* the value of a run of decimal digits in which single underscores may
\* separate digits; -1 when the text is something else
RECURSIVE DigitsValue(_, _, _)
DigitsValue(str, i, acc) ==
    IF i > Len(str) THEN acc
    ELSE IF IsDigit(str[i]) THEN DigitsValue(str, i + 1, acc * 10 + (str[i] - 48))
    ELSE IF str[i] = 95 /\ i > 1 /\ i < Len(str) /\ IsDigit(str[i - 1]) /\ IsDigit(str[i + 1])
    THEN DigitsValue(str, i + 1, acc)
    ELSE -1

\* int(text): white space around, an optional sign, decimal digits; ok is
\* FALSE where int raises ValueError
PyInt(text) ==
    LET st == Strip(text)
        signed == st # <<>> /\ st[1] \in {43, 45}
        body == IF signed THEN Tail(st) ELSE st
        v == IF body = <<>> THEN -1 ELSE DigitsValue(body, 1, 0)
    IN IF v = -1 THEN [ok |-> FALSE, value |-> 0]
       ELSE [ok |-> TRUE, value |-> IF signed /\ st[1] = 45 THEN 0 - v ELSE v]

\* parse_pin's results: a (type, number) pair, type "none" for None
Parsed(type, num) == [type |-> type, num |-> num]

parse_pin(pin_str) ==
    LET p == Upper(Strip(pin_str))
    IN IF p = I2C THEN Parsed("i2c", 0)
       ELSE IF p # <<>> /\ p[1] = 65
       THEN IF PyInt(Tail(p)).ok THEN Parsed("analog", PyInt(Tail(p)).value)
            ELSE Parsed("none", 0)
       ELSE IF PyInt(p).ok THEN Parsed("digital", PyInt(p).value)
       ELSE Parsed("none", 0)

(***************************************************************************)
(* validate_pin_type_compatibility.  A sensor of the configuration tool    *)
(* carries pinTypeRequirement, the empty sequence when it is None or not   *)
(* there; an input of the persisted document carries idx, pin and          *)
(* sensorIndex, the pin empty and the index NoSensor when the key is not   *)
(* there.                                                                  *)
(***************************************************************************)
PIN_I2C == <<80, 73, 78, 95, 73, 50, 67>>

PIN_DIGITAL == <<80, 73, 78, 95, 68, 73, 71, 73, 84, 65, 76>>

PIN_ANALOG == <<80, 73, 78, 95, 65, 78, 65, 76, 79, 71>>

NoRequirement == <<>>

PinSensor(i, n, impl, mt, req) ==
    [index |-> i, name |-> n, nameHash |-> djb2_hash(n), is_implemented |-> impl,
     measurementType |-> mt, pinTypeRequirement |-> req]

LowerChar(c) == IF IsUpper(c) THEN c + 32 ELSE c

Lower(str) == [i \in 1..Len(str) |-> LowerChar(str[i])]

\* str.replace("PIN_", ""): every occurrence goes, left to right
RECURSIVE RemovePIN_(_)
RemovePIN_(str) ==
    IF Len(str) >= 4 /\ SubSeq(str, 1, 4) = <<80, 73, 78, 95>>
    THEN RemovePIN_(SubSeq(str, 5, Len(str)))
    ELSE IF str = <<>> THEN <<>>
    ELSE <<str[1]>> \o RemovePIN_(Tail(str))

\* pin_requirement.replace("PIN_", "").lower()
Requirement(pin_requirement) == Lower(RemovePIN_(pin_requirement))

PinMsg(kind, inp, sn) ==
    Msg(kind, inp.idx, sn.name, inp.pin, -1, -1, inp.sensorIndex, "", "")

\* the errors validate_pin_type_compatibility appends for one input
PinGateStepLiteralMarker(inp, ss) ==
    LET p == FindSensor(ss, inp.sensorIndex, 1)
    IN IF p = 0 THEN <<>>
       ELSE IF ss[p].pinTypeRequirement = NoRequirement THEN <<>>
       ELSE IF Requirement(ss[p].pinTypeRequirement) = <<105, 50, 99>>
       THEN IF inp.pin # I2C
            THEN <<PinMsg("I2C sensor must use 'I2C' as pin", inp, ss[p])>>
            ELSE <<>>
       ELSE IF inp.pin = I2C
       THEN <<PinMsg("Sensor cannot use 'I2C' as pin (only I2C sensors)", inp, ss[p])>>
       ELSE IF parse_pin(inp.pin).type = "none" THEN <<>>
       ELSE IF Requirement(ss[p].pinTypeRequirement) = <<100, 105, 103, 105, 116, 97, 108>>
               /\ parse_pin(inp.pin).type = "analog"
       THEN <<PinMsg("Sensor requires a digital pin", inp, ss[p])>>
       ELSE IF Requirement(ss[p].pinTypeRequirement) = <<97, 110, 97, 108, 111, 103>>
               /\ parse_pin(inp.pin).type = "digital"
       THEN <<PinMsg("Sensor requires an analog pin", inp, ss[p])>>
       ELSE <<>>

PinGateStep(inp, ss) ==
    LET p == FindSensor(ss, inp.sensorIndex, 1)
    IN IF p = 0 THEN <<>>
       ELSE IF ss[p].pinTypeRequirement = NoRequirement THEN <<>>
       ELSE IF Requirement(ss[p].pinTypeRequirement) = <<105, 50, 99>>
       THEN IF Upper(inp.pin) # I2C
            THEN <<PinMsg("I2C sensor must use 'I2C' as pin", inp, ss[p])>>
            ELSE <<>>
       ELSE IF Upper(inp.pin) = I2C
       THEN <<PinMsg("Sensor cannot use 'I2C' as pin (only I2C sensors)", inp, ss[p])>>
       ELSE IF parse_pin(inp.pin).type = "none" THEN <<>>
       ELSE IF Requirement(ss[p].pinTypeRequirement) = <<100, 105, 103, 105, 116, 97, 108>>
               /\ parse_pin(inp.pin).type = "analog"
       THEN <<PinMsg("Sensor requires a digital pin", inp, ss[p])>>
       ELSE IF Requirement(ss[p].pinTypeRequirement) = <<97, 110, 97, 108, 111, 103>>
               /\ parse_pin(inp.pin).type = "digital"
       THEN <<PinMsg("Sensor requires an analog pin", inp, ss[p])>>
       ELSE <<>>

RECURSIVE PinGateLoop(_, _, _, _)
\* for inp in config_inputs
PinGateLoop(cfg, ss, i, errors) ==
    IF i > Len(cfg) THEN errors
    ELSE PinGateLoop(cfg, ss, i + 1, errors \o PinGateStep(cfg[i], ss))

validate_pin_type_compatibility(cfg, ss) == PinGateLoop(cfg, ss, 1, <<>>)

(***************************************************************************)
(* Files and documents of the configuration tool.                          *)
(***************************************************************************)
\* a text file is a sequence of lines; a line is kept as its kind (a marker,
\* a define, plain text), the input it is about, its number and its text
Line(kind, i, num, text) == [kind |-> kind, i |-> i, num |-> num, text |-> text]

\* a path at which there is no file
NoFile == <<Line("<no file>", -1, -1, <<>>)>>

\* --load names a file that cannot be read or is not JSON
NoDocument == [readable |-> FALSE]

\* the persisted document (lines 406-415)
Document(schemaVersion, mode, pf, timestamp, list) ==
    [readable |-> TRUE, schemaVersion |-> schemaVersion, mode |-> mode,
     metadata |-> [toolVersion |-> "1.0.0", platform |-> pf, timestamp |-> timestamp],
     inputs |-> list]

\* metadata.timestamp is None or not there
NoTimestamp == -1

(***************************************************************************)
(* Inputs of the hash calls.                                               *)
(***************************************************************************)
Strings == UNION {[1..n -> Alphabet] : n \in 0..MaxLen}

SwapCase(c) ==
    IF IsLower(c) THEN c - 32 ELSE IF IsUpper(c) THEN c + 32 ELSE c

\* the strings that differ from str only in the case of letters
CaseVariants(str) ==
    {[i \in 1..Len(str) |-> IF i \in flip THEN SwapCase(str[i]) ELSE str[i]] :
        flip \in SUBSET (1..Len(str))}

HashInputs == Strings \cup {Max6675, MAX6675}

(***************************************************************************)
(* Specification of the hash calls: the arguments are drawn, the function  *)
(* is applied to both.                                                     *)
(***************************************************************************)
\* the variables a specification does not use stay at these values
IdleHash == s = <<>> /\ t = <<>> /\ hash_value = 0 /\ hash_other = 0

IdleRegistries == sensors = <<>> /\ apps = <<>> /\ units = <<>>

IdlePasses ==
    /\ hash_errors = <<>> /\ collision_errors = <<>> /\ ref_errors = <<>>
    /\ ref_warnings = <<>> /\ type_errors = <<>> /\ config_errors = <<>>

IdleRun ==
    /\ all_errors = <<>> /\ all_warnings = <<>> /\ ci = FALSE /\ check_config = FALSE
    /\ status = "" /\ exit_code = -1 /\ completed = <<>>
    /\ config_h = ConfigFile(FALSE, FALSE, NoCount, <<>>)

IdleTool ==
    /\ args_load = FALSE /\ generate_thin_libs = FALSE /\ document = NoDocument
    /\ config_inputs = <<>> /\ pin_errors = <<>> /\ inputs = <<>>
    /\ unified = <<>> /\ round_trip = <<>>
    /\ original_timestamp = NoTimestamp /\ config_modified = FALSE
    /\ should_add_new = FALSE /\ now = 0
    /\ target = NoFile /\ backup = NoFile /\ calibration_file = NoFile
    /\ thin_libraries = NoFile /\ writable = FALSE /\ messages = <<>>
    /\ platform = "uno"

\* what one header holds: "missing", "no block" or "block"
Headers(sensor_library, application_presets, units_registry) ==
    [sensors |-> sensor_library, apps |-> application_presets, units |-> units_registry]

IdleHeaders == headers = Headers("block", "block", "block")

\* the result of a parser call: the entries returned, or the exception raised
ParseResult(entries) == [raised |-> "", entries |-> entries]

IdleParse ==
    /\ struct_content = <<>> /\ x_content = <<>>
    /\ pstr_macros = <<>> /\ enum_constants = <<>>
    /\ registries = ParseResult(<<>>)

IdlePin ==
    /\ pin_arg = <<>> /\ used_arg = <<>>
    /\ requirement_arg = NoRequirement /\ pin_error = ""

InitHash ==
    /\ IdleHeaders /\ IdleParse /\ IdlePin
    /\ pc = "call"
    /\ IdleTool
    /\ s \in HashInputs
    /\ t \in CaseVariants(s)
    /\ hash_value = 0
    /\ hash_other = 0
    /\ raised = ""
    /\ IdleRegistries /\ IdlePasses /\ IdleRun

CallDjb2 ==
    /\ pc = "call"
    /\ UNCHANGED <<toolVars, parseVars, pinVars>>
    /\ hash_value' = djb2_hash(s)
    /\ hash_other' = djb2_hash(t)
    /\ pc' = "returned"
    /\ UNCHANGED <<s, t, regVars, passVars, runVars, raised>>

NextHash == CallDjb2

SpecHash == InitHash /\ [][NextHash]_vars

(***************************************************************************)
(* Reference values of the hash: Horner's rule reduced modulo 2^16 at      *)
(* every step, and the full accumulator in machine integers (for           *)
(* arguments of at most three characters, which it fits).                  *)
(***************************************************************************)
RECURSIVE Horner16(_, _)
Horner16(str, n) ==
    IF n = 0 THEN 5381 ELSE (32 * Horner16(str, n - 1) + Horner16(str, n - 1) + str[n]) % 65536

RECURSIVE FullAcc(_, _)
FullAcc(str, n) ==
    IF n = 0 THEN 5381 ELSE 32 * FullAcc(str, n - 1) + FullAcc(str, n - 1) + str[n]

(***************************************************************************)
(* C1: djb2_hash(s) is 0 for the empty string and otherwise the low 16     *)
(* bits (a value in 0..65535) of the accumulator that starts at 5381 and   *)
(* takes acc = (acc<<5) + acc + codepoint(c) for each character c of the   *)
(* upper-cased s, in order.                                                *)
(***************************************************************************)
HashIsLow16OfAccumulator ==
    pc = "returned" =>
        /\ hash_value \in 0..65535
        /\ s = <<>> => hash_value = 0
        /\ s # <<>> => hash_value = Horner16(Upper(s), Len(s))
        /\ (s # <<>> /\ Len(s) <= 3) => hash_value = FullAcc(Upper(s), Len(s)) % 65536

\* djb2_hash("Max6675") has returned 0x2A23
HashOfMax6675Returned ==
    pc = "returned" /\ s = Max6675 /\ hash_value = 10787

(***************************************************************************)
(* C2: djb2_hash is case-insensitive: two strings that differ only in the  *)
(* case of their letters hash to the same value.                           *)
(***************************************************************************)
HashIgnoresCase ==
    pc = "returned" => hash_value = hash_other

\* "Max6675" and "MAX6675" have both been hashed
MixedCasePairHashed ==
    pc = "returned" /\ s = Max6675 /\ t = MAX6675 /\ hash_value = 10787

(***************************************************************************)
(* Registries handed to the passes: every triple of lists over the given   *)
(* entry sets with at most n entries in all, each entry indexed by its     *)
(* position as _parse_structs does for entries without an annotation.      *)
(***************************************************************************)
Range(f) == {f[i] : i \in DOMAIN f}

ByPosition(entries) == [i \in 1..Len(entries) |-> [entries[i] EXCEPT !.index = i - 1]]

ListsOf(E, k) == {ByPosition(f) : f \in [1..k -> E]}

Registries(n, SE, AE, UE) ==
    UNION {ListsOf(SE, a) \X ListsOf(AE, b) \X ListsOf(UE, n1 - a - b) :
              <<n1, a, b>> \in {x \in (0..n) \X (0..n) \X (0..n) : x[2] + x[3] <= x[1]}}

\* names of the modelled entries: "Ab", "C" and "aB" (the first in other case)
NameAb == <<65, 98>>

NameC == <<67>>

NameaB == <<97, 66>>

(***************************************************************************)
(* validate_hash_algorithm applied: named entries whose stored hash is the *)
(* hash of their name or of another name, entries without a name, units    *)
(* with and without an alias.                                              *)
(***************************************************************************)
StoredHashes == {djb2_hash(NameAb), djb2_hash(NameC)}

HashSensors ==
    {Sensor(0, n, h, TRUE, "T") : n \in {NameAb, NameaB}, h \in StoredHashes}
        \cup {Sensor(0, NoName, djb2_hash(NameC), FALSE, "T")}

HashApps ==
    {App(0, NameC, h, TRUE, 0, "T") : h \in StoredHashes}
        \cup {App(0, NoName, djb2_hash(NameC), FALSE, 0, "T")}

HashUnits ==
    {Unit(0, nh[1], nh[2], ah[1], ah[2]) :
        nh \in ({NameAb} \X StoredHashes) \cup {<<NoName, 0>>},
        ah \in ({NameC} \X StoredHashes) \cup {<<NoName, 0>>}}

InitHashAlgorithm ==
    /\ IdleHeaders /\ IdleParse /\ IdlePin
    /\ pc = "call"
    /\ IdleTool
    /\ \E r \in Registries(MaxHashEntries, HashSensors, HashApps, HashUnits) :
          sensors = r[1] /\ apps = r[2] /\ units = r[3]
    /\ raised = ""
    /\ IdleHash /\ IdlePasses /\ IdleRun

CallHashAlgorithm ==
    /\ pc = "call"
    /\ UNCHANGED <<toolVars, parseVars, pinVars>>
    /\ LET r == validate_hash_algorithm(sensors, apps, units)
       IN hash_errors' = r.errors /\ raised' = r.raised
    /\ pc' = "returned"
    /\ UNCHANGED <<hashVars, regVars, runVars, collision_errors, ref_errors, ref_warnings,
                   type_errors, config_errors>>

NextHashAlgorithm == CallHashAlgorithm

SpecHashAlgorithm == InitHashAlgorithm /\ [][NextHashAlgorithm]_vars

\* the (kind, index) pairs of the entries whose stored hash is not the hash of their name
NameMismatches(kind, entries) ==
    {<<kind, e.index>> : e \in {x \in Range(entries) :
                                   x.name # NoName /\ x.nameHash # djb2_hash(x.name)}}

AliasMismatches(entries) ==
    {<<"Alias hash mismatch for UNIT", e.index>> :
        e \in {x \in Range(entries) : x.alias # NoName /\ x.aliasHash # djb2_hash(x.alias)}}

ExpectedHashMismatches ==
    NameMismatches("Hash mismatch for SENSOR", sensors)
        \cup NameMismatches("Hash mismatch for APP", apps)
        \cup NameMismatches("Hash mismatch for UNIT", units)
        \cup AliasMismatches(units)

(***************************************************************************)
(* C3: validate_hash_algorithm reports an error for an entry exactly when  *)
(* the entry has a name (for a unit, also: an alias) and the stored        *)
(* nameHash (aliasHash) differs from djb2_hash of it: every sensor,        *)
(* application and unit with a name is checked, each mismatch is reported  *)
(* once, and an entry whose stored hash equals the recomputed one yields   *)
(* no error.                                                               *)
(***************************************************************************)
HashAlgorithmReportsExactlyMismatches ==
    pc = "returned" =>
        /\ raised = ""
        /\ {<<m.kind, m.index>> : m \in Range(hash_errors)} = ExpectedHashMismatches
        /\ Len(hash_errors) = Cardinality(ExpectedHashMismatches)
        /\ \A m \in Range(hash_errors) : m.expected # m.hash

\* a run that reported a unit's alias mismatch and passed a correctly hashed sensor
AliasMismatchReported ==
    /\ pc = "returned"
    /\ \E m \in Range(hash_errors) : m.kind = "Alias hash mismatch for UNIT"
    /\ \E e \in Range(sensors) : e.name = NameaB /\ e.nameHash = djb2_hash(NameAb)
    /\ \A m \in Range(hash_errors) : m.kind # "Hash mismatch for SENSOR"

(***************************************************************************)
(* validate_hash_collisions applied.  The pass compares the stored hashes  *)
(* only, so small numbers stand for them.  Sensors and applications:       *)
(* named entries (implemented, or placeholders with a name and a null      *)
(* label), entries without a name (placeholders, or implemented through    *)
(* their label alone).  Units: named units with every combination of name  *)
(* and alias hash, and a unit without a name.  The registries are either   *)
(* sensors and applications, or units.                                     *)
(***************************************************************************)
CollisionSensors ==
    {Sensor(0, n, h, impl, "T") : n \in {NameAb, NameaB, NameC}, h \in {1, 2},
                                  impl \in BOOLEAN}
        \cup {Sensor(0, NoName, 1, impl, "T") : impl \in BOOLEAN}

CollisionApps ==
    {App(0, NameC, h, TRUE, 0, "T") : h \in {1, 2}} \cup {App(0, NoName, 1, FALSE, 0, "T")}

CollisionUnits ==
    {Unit(0, NameAb, h, NameC, ah) : h \in {1, 2, 3}, ah \in {1, 2, 3}}
        \cup {Unit(0, NoName, 1, NameC, 2)}

InitCollisions ==
    /\ IdleHeaders /\ IdleParse /\ IdlePin
    /\ pc = "call"
    /\ IdleTool
    /\ \E r \in Registries(MaxCollisionEntries, CollisionSensors, CollisionApps, {})
                  \cup Registries(MaxCollisionEntries, {}, {}, CollisionUnits) :
          sensors = r[1] /\ apps = r[2] /\ units = r[3]
    /\ raised = ""
    /\ IdleHash /\ IdlePasses /\ IdleRun

CallHashCollisions ==
    /\ pc = "call"
    /\ UNCHANGED <<toolVars, parseVars, pinVars>>
    /\ LET r == validate_hash_collisions(sensors, apps, units)
       IN collision_errors' = r.errors /\ raised' = r.raised
    /\ pc' = "returned"
    /\ UNCHANGED <<hashVars, regVars, runVars, hash_errors, ref_errors, ref_warnings,
                   type_errors, config_errors>>

NextCollisions == CallHashCollisions

SpecCollisions == InitCollisions /\ [][NextCollisions]_vars

Positions(entries) == [i \in 1..Len(entries) |-> i]

\* the first named entry of the registry that carries hash h
FirstNamedWith(entries, h) ==
    CHOOSE i \in 1..Len(entries) :
        /\ entries[i].name # NoName /\ entries[i].nameHash = h
        /\ \A k \in 1..(i - 1) : ~(entries[k].name # NoName /\ entries[k].nameHash = h)

\* a named entry repeats the hash of a named entry before it
RepeatsEarlierHash(entries, j) ==
    /\ entries[j].name # NoName
    /\ \E i \in 1..(j - 1) : entries[i].name # NoName /\ entries[i].nameHash = entries[j].nameHash

ExpectedCollisions(kind, entries) ==
    LET hits == SelectSeq(Positions(entries), LAMBDA j : RepeatsEarlierHash(entries, j))
    IN [k \in 1..Len(hits) |->
           CollisionMsg(kind, entries[hits[k]].name,
                        entries[FirstNamedWith(entries, entries[hits[k]].nameHash)].name,
                        entries[hits[k]].nameHash)]

IsSensorOrAppCollision(m) ==
    m.kind \in {"Sensor hash collision", "Application hash collision"}

IsUnitCollision(m) == m.kind \in {"Unit hash collision", "Unit alias hash collision"}

\* the pairs of distinct implemented entries of a registry with equal nameHash
ImplementedPairs(entries) ==
    {p \in (1..Len(entries)) \X (1..Len(entries)) :
        /\ p[1] < p[2]
        /\ entries[p[1]].is_implemented /\ entries[p[2]].is_implemented
        /\ entries[p[1]].nameHash = entries[p[2]].nameHash}

ErrorsOfKind(errors, kind) == SelectSeq(errors, LAMBDA m : m.kind = kind)

(***************************************************************************)
(* C4 as claimed: for each registry, one error for every pair of distinct  *)
(* implemented entries whose nameHash values are equal, and no other       *)
(* error, for any number of entries sharing one hash.  (Stated for the     *)
(* sensor and application registries.)                                     *)
(***************************************************************************)
CollisionsReportedPerImplementedPair ==
    pc = "returned" =>
        /\ Len(ErrorsOfKind(collision_errors, "Sensor hash collision"))
               = Cardinality(ImplementedPairs(sensors))
        /\ Len(ErrorsOfKind(collision_errors, "Application hash collision"))
               = Cardinality(ImplementedPairs(apps))

(***************************************************************************)
(* C4 as amended: in the sensor and in the application registry, one error *)
(* for every named entry whose nameHash equals that of a named entry       *)
(* before it, naming the entry and the first named entry carrying the      *)
(* hash (n entries sharing a hash give n-1 errors), in registry order, and *)
(* no other error; entries without a name take no part, named entries do   *)
(* whether implemented or not.                                             *)
(***************************************************************************)
CollisionsReportedAgainstFirst ==
    pc = "returned" =>
        /\ raised = ""
        /\ SelectSeq(collision_errors, IsSensorOrAppCollision)
               = ExpectedCollisions("Sensor hash collision", sensors)
                     \o ExpectedCollisions("Application hash collision", apps)

\* three named sensors share one hash: two errors, both against the first
ThreeSensorsShareHash ==
    /\ pc = "returned"
    /\ Len(sensors) = 3
    /\ \A i \in 1..3 : sensors[i].name # NoName /\ sensors[i].nameHash = 1
    /\ sensors[1].name = NameAb /\ sensors[2].name = NameaB /\ sensors[3].name = NameC
    /\ ~sensors[3].is_implemented
    /\ Len(collision_errors) = 2
    /\ collision_errors[2].name = NameC /\ collision_errors[2].other = NameAb

\* the hashes a unit puts into the shared table
UnitHashes(u) == {u.nameHash, u.aliasHash}

NamedUnits == {i \in 1..Len(units) : units[i].name # NoName}

(***************************************************************************)
(* C5: in the units registry the name-hash and alias-hash namespaces are   *)
(* shared: for any two distinct named units, in either registry order, if  *)
(* a nameHash or aliasHash of one equals a nameHash or aliasHash of the    *)
(* other, at least one error is reported; if all name and alias hashes of  *)
(* distinct units are pairwise different, no unit error is reported.       *)
(***************************************************************************)
UnitNamespaceShared ==
    pc = "returned" =>
        /\ raised = ""
        /\ (\E i, j \in NamedUnits : i # j /\ UnitHashes(units[i]) \cap UnitHashes(units[j]) # {})
               => \E m \in Range(collision_errors) : IsUnitCollision(m)
        /\ (\A i, j \in NamedUnits : i # j => UnitHashes(units[i]) \cap UnitHashes(units[j]) = {})
               => \A m \in Range(collision_errors) : ~IsUnitCollision(m)

\* the alias hash of the second unit is the name hash of the first, nothing else coincides
AliasMeetsEarlierName ==
    /\ pc = "returned"
    /\ Len(units) = 2 /\ NamedUnits = {1, 2}
    /\ units[2].aliasHash = units[1].nameHash
    /\ units[2].nameHash \notin UnitHashes(units[1])
    /\ Len(collision_errors) = 1
    /\ collision_errors[1].kind = "Unit alias hash collision"

(***************************************************************************)
(* validate_index_references and validate_measurement_types applied.       *)
(* Sensors carry annotated indices ("Index N:"), so an index may be        *)
(* missing or carried twice; applications are indexed by position and      *)
(* refer to index 0, index 1 or nothing.                                   *)
(***************************************************************************)
RefSensors ==
    {Sensor(i, NameAb, 1, TRUE, mt) : i \in {0, 1}, mt \in {"T", "P"}}
        \cup {Sensor(i, NoName, 0, FALSE, "T") : i \in {0, 1}}

RefApps ==
    {App(0, NameC, 2, TRUE, ds, mt) : ds \in {0, 1, NoSensor}, mt \in {"T", "P"}}
        \cup {App(0, NoName, 0, FALSE, ds, "P") : ds \in {0, NoSensor}}

RefRegistries(n) ==
    UNION {[1..a -> RefSensors] \X ListsOf(RefApps, n1 - a) :
              <<n1, a>> \in {x \in (0..n) \X (0..n) : x[2] <= x[1]}}

InitReferences ==
    /\ IdleHeaders /\ IdleParse /\ IdlePin
    /\ pc = "call"
    /\ IdleTool
    /\ \E r \in RefRegistries(MaxRefEntries) : sensors = r[1] /\ apps = r[2]
    /\ units = <<>>
    /\ raised = ""
    /\ IdleHash /\ IdlePasses /\ IdleRun

CallIndexReferences ==
    /\ pc = "call"
    /\ UNCHANGED <<toolVars, parseVars, pinVars>>
    /\ LET r == validate_index_references(apps, sensors)
       IN ref_errors' = r.errors /\ ref_warnings' = r.warnings /\ raised' = r.raised
    /\ pc' = "referenced"
    /\ UNCHANGED <<hashVars, regVars, runVars, hash_errors, collision_errors, type_errors,
                   config_errors>>

CallMeasurementTypes ==
    /\ pc = "call"
    /\ UNCHANGED <<toolVars, parseVars, pinVars>>
    /\ LET r == validate_measurement_types(apps, sensors)
       IN type_errors' = r.errors /\ raised' = r.raised
    /\ pc' = "typed"
    /\ UNCHANGED <<hashVars, regVars, runVars, hash_errors, collision_errors, ref_errors,
                   ref_warnings, config_errors>>

NextReferences == CallIndexReferences \/ CallMeasurementTypes

SpecReferences == InitReferences /\ [][NextReferences]_vars

\* the findings about the application at position i (applications are indexed by position)
About(msgs, i) == SelectSeq(msgs, LAMBDA m : m.index = apps[i].index)

\* the sensor entries that carry the application's defaultSensor index
Referenced(i) == {k \in 1..Len(sensors) : sensors[k].index = apps[i].defaultSensor}

\* the entry the lookup yields: the first in registry order
Resolved(i) == CHOOSE k \in Referenced(i) : \A j \in Referenced(i) : k <= j

(***************************************************************************)
(* C6: for every implemented application whose defaultSensor index is not  *)
(* the index of any entry of the sensor registry, validate_index_references*)
(* returns exactly one error for that application and no warning for it.   *)
(***************************************************************************)
DanglingReferenceIsOneError ==
    pc = "referenced" =>
        /\ raised = ""
        /\ \A i \in 1..Len(apps) :
              (apps[i].is_implemented /\ Referenced(i) = {})
                  => /\ Len(About(ref_errors, i)) = 1
                     /\ About(ref_errors, i)[1].kind = "references non-existent SENSOR"
                     /\ About(ref_errors, i)[1].sensor = apps[i].defaultSensor
                     /\ About(ref_warnings, i) = <<>>

\* an application refers to index 1 while the only sensor has index 0
DanglingReferenceReported ==
    /\ pc = "referenced"
    /\ Len(sensors) = 1 /\ sensors[1].index = 0
    /\ Len(apps) = 2 /\ apps[1].is_implemented /\ apps[1].defaultSensor = 0
    /\ apps[2].is_implemented /\ apps[2].defaultSensor = 1
    /\ Len(ref_errors) = 1 /\ ref_errors[1].index = 1

(***************************************************************************)
(* C7 as claimed: for every implemented application whose defaultSensor    *)
(* index exists in the sensor registry but refers to an unimplemented      *)
(* sensor, exactly one warning for that application and no error, also     *)
(* when several sensor entries carry that index.                           *)
(***************************************************************************)
UnimplementedReferenceIsOneWarning ==
    pc = "referenced" =>
        \A i \in 1..Len(apps) :
            (apps[i].is_implemented /\ \E k \in Referenced(i) : ~sensors[k].is_implemented)
                => /\ Len(About(ref_warnings, i)) = 1
                   /\ About(ref_errors, i) = <<>>

(***************************************************************************)
(* C7 as amended: for every implemented application whose defaultSensor    *)
(* index exists in the sensor registry and whose first sensor entry with   *)
(* that index, in registry order, is unimplemented, exactly one warning    *)
(* for that application and no error; when several entries carry the       *)
(* index the first alone decides, and an application whose first such      *)
(* entry is implemented gets no warning.                                   *)
(***************************************************************************)
FirstReferencedUnimplementedIsOneWarning ==
    pc = "referenced" =>
        /\ raised = ""
        /\ \A i \in 1..Len(apps) :
              (apps[i].is_implemented /\ Referenced(i) # {})
                  => /\ About(ref_errors, i) = <<>>
                     /\ IF sensors[Resolved(i)].is_implemented
                        THEN About(ref_warnings, i) = <<>>
                        ELSE /\ Len(About(ref_warnings, i)) = 1
                             /\ About(ref_warnings, i)[1].kind = "references unimplemented SENSOR"

\* two sensor entries carry index 0, the first of them a placeholder: one warning
DuplicateIndexFirstUnimplemented ==
    /\ pc = "referenced"
    /\ Len(sensors) = 2 /\ sensors[1].index = 0 /\ sensors[2].index = 0
    /\ ~sensors[1].is_implemented /\ sensors[2].is_implemented
    /\ Len(apps) = 1 /\ apps[1].is_implemented /\ apps[1].defaultSensor = 0
    /\ Len(ref_warnings) = 1 /\ ref_errors = <<>>

(***************************************************************************)
(* C8: validate_measurement_types reports an error for an application      *)
(* exactly when the application is implemented, its defaultSensor resolves *)
(* to an implemented sensor and the application's expectedMeasurementType  *)
(* differs from that sensor's measurementType; applications that are       *)
(* unimplemented, or whose default sensor is absent or unimplemented,      *)
(* yield no error.                                                         *)
(***************************************************************************)
TypeMismatchReportedExactly ==
    pc = "typed" =>
        /\ raised = ""
        /\ \A i \in 1..Len(apps) :
              IF /\ apps[i].is_implemented
                 /\ Referenced(i) # {}
                 /\ sensors[Resolved(i)].is_implemented
                 /\ apps[i].expectedMeasurementType # sensors[Resolved(i)].measurementType
              THEN /\ Len(About(type_errors, i)) = 1
                   /\ About(type_errors, i)[1].want = apps[i].expectedMeasurementType
                   /\ About(type_errors, i)[1].have = sensors[Resolved(i)].measurementType
              ELSE About(type_errors, i) = <<>>
        /\ \A m \in Range(type_errors) : \E i \in 1..Len(apps) : m.index = apps[i].index

\* the application expects "P", the implemented sensor at its index provides "T"
TypeMismatchReported ==
    /\ pc = "typed"
    /\ Len(sensors) = 2 /\ sensors[1].is_implemented /\ ~sensors[2].is_implemented
    /\ sensors[1].index = 0 /\ sensors[2].index = 1
    /\ Len(apps) = 1 /\ apps[1].is_implemented /\ apps[1].defaultSensor = 0
    /\ apps[1].expectedMeasurementType = "P" /\ sensors[1].measurementType = "T"
    /\ Len(type_errors) = 1

(***************************************************************************)
(* The run of validate_registries.main.  The registries are what the three *)
(* parsers return for the headers on disk: entries as in the data model,   *)
(* and entries whose struct literal leaves a field out (a named sensor     *)
(* without nameHash or without measurementType, a unit without alias and   *)
(* aliasHash), which the parser turns into dicts without that key.         *)
(***************************************************************************)
RunSensors ==
    {Sensor(0, NameAb, djb2_hash(NameAb), TRUE, "T"),
     Sensor(0, NameC, djb2_hash(NameAb), TRUE, "P"),
     Sensor(0, NoName, 0, FALSE, "T"),
     Sensor(0, NameC, NoHash, TRUE, "T"),
     Sensor(0, NameAb, djb2_hash(NameAb), TRUE, NoType)}

RunApps ==
    {App(0, NameC, djb2_hash(NameC), TRUE, 0, "T"),
     App(0, NameAb, djb2_hash(NameAb), TRUE, 0, "P"),
     App(0, NoName, 0, FALSE, 0, "T")}

RunUnits ==
    {Unit(0, NameAb, djb2_hash(NameAb), NameC, djb2_hash(NameC)),
     Unit(0, NameC, djb2_hash(NameC), NoName, NoHash)}

ConfigFiles ==
    {ConfigFile(FALSE, FALSE, NoCount, <<>>),
     ConfigFile(TRUE, FALSE, NoCount, <<>>),
     ConfigFile(TRUE, TRUE, NoCount, <<>>),
     ConfigFile(TRUE, TRUE, 1, <<Input("A0", 0, 0)>>),
     ConfigFile(TRUE, TRUE, 2, <<Input("A0", 0, 0), Input("A0", NoDefine, 1)>>)}

\* each of the three headers is missing, is there without its registry block,
\* or holds the block
HeaderStates == {"missing", "no block", "block"}

HeadersOnDisk == {Headers(a, b, c) : a \in HeaderStates, b \in HeaderStates, c \in HeaderStates}

\* open() raises FileNotFoundError on one of the headers
HeaderMissing == \E k \in DOMAIN headers : headers[k] = "missing"

\* _extract_struct_block finds nothing and the parser returns []
NoBlock(k) == headers[k] = "no block"

Init ==
    /\ headers \in HeadersOnDisk
    /\ IdleParse /\ IdlePin
    /\ pc = "load"
    /\ IdleTool
    /\ ci \in BOOLEAN
    /\ check_config \in BOOLEAN
    /\ all_errors = <<>> /\ all_warnings = <<>>
    /\ status = "" /\ exit_code = -1 /\ completed = <<>>
    /\ config_h = ConfigFile(FALSE, FALSE, NoCount, <<>>)
    /\ raised = ""
    /\ IdleHash /\ IdleRegistries /\ IdlePasses

\* an exception no handler catches ends the process with a traceback and exit status 1
Abort(exc) ==
    /\ raised' = exc
    /\ exit_code' = 1
    /\ pc' = "exited"

\* lines 53-56: the three headers are read and parsed
LoadRegistries ==
    /\ pc = "load"
    /\ ~HeaderMissing
    /\ UNCHANGED <<toolVars, parseVars, pinVars>>
    /\ \E r \in Registries(MaxRunEntries, RunSensors, RunApps, RunUnits) :
          /\ NoBlock("sensors") => r[1] = <<>>
          /\ NoBlock("apps") => r[2] = <<>>
          /\ NoBlock("units") => r[3] = <<>>
          /\ sensors' = r[1] /\ apps' = r[2] /\ units' = r[3]
    /\ completed' = Append(completed, "load")
    /\ pc' = "hash"
    /\ UNCHANGED <<hashVars, passVars, all_errors, all_warnings, ci, check_config, status,
                   exit_code, config_h, raised>>

\* lines 57-59: a header is missing, sys.exit(1)
LoadFails ==
    /\ pc = "load"
    /\ HeaderMissing
    /\ UNCHANGED <<toolVars, parseVars, pinVars>>
    /\ exit_code' = 1
    /\ pc' = "exited"
    /\ UNCHANGED <<hashVars, regVars, passVars, all_errors, all_warnings, ci, check_config,
                   status, completed, config_h, raised>>

\* lines 74-80
HashPass ==
    /\ pc = "hash"
    /\ UNCHANGED <<toolVars, parseVars, pinVars>>
    /\ LET r == validate_hash_algorithm(sensors, apps, units)
       IN IF r.raised # ""
          THEN Abort(r.raised) /\ UNCHANGED <<hash_errors, all_errors, completed>>
          ELSE /\ hash_errors' = r.errors
               /\ all_errors' = all_errors \o r.errors
               /\ completed' = Append(completed, "hash")
               /\ pc' = "collisions"
               /\ UNCHANGED <<raised, exit_code>>
    /\ UNCHANGED <<hashVars, regVars, collision_errors, ref_errors, ref_warnings, type_errors,
                   config_errors, all_warnings, ci, check_config, status, config_h>>

\* lines 82-88
CollisionPass ==
    /\ pc = "collisions"
    /\ UNCHANGED <<toolVars, parseVars, pinVars>>
    /\ LET r == validate_hash_collisions(sensors, apps, units)
       IN IF r.raised # ""
          THEN Abort(r.raised) /\ UNCHANGED <<collision_errors, all_errors, completed>>
          ELSE /\ collision_errors' = r.errors
               /\ all_errors' = all_errors \o r.errors
               /\ completed' = Append(completed, "collisions")
               /\ pc' = "references"
               /\ UNCHANGED <<raised, exit_code>>
    /\ UNCHANGED <<hashVars, regVars, hash_errors, ref_errors, ref_warnings, type_errors,
                   config_errors, all_warnings, ci, check_config, status, config_h>>

\* lines 90-99
ReferencePass ==
    /\ pc = "references"
    /\ UNCHANGED <<toolVars, parseVars, pinVars>>
    /\ LET r == validate_index_references(apps, sensors)
       IN IF r.raised # ""
          THEN /\ Abort(r.raised)
               /\ UNCHANGED <<ref_errors, ref_warnings, all_errors, all_warnings, completed>>
          ELSE /\ ref_errors' = r.errors
               /\ ref_warnings' = r.warnings
               /\ all_errors' = all_errors \o r.errors
               /\ all_warnings' = all_warnings \o r.warnings
               /\ completed' = Append(completed, "references")
               /\ pc' = "types"
               /\ UNCHANGED <<raised, exit_code>>
    /\ UNCHANGED <<hashVars, regVars, hash_errors, collision_errors, type_errors,
                   config_errors, ci, check_config, status, config_h>>

\* lines 101-107
TypePass ==
    /\ pc = "types"
    /\ UNCHANGED <<toolVars, parseVars, pinVars>>
    /\ LET r == validate_measurement_types(apps, sensors)
       IN IF r.raised # ""
          THEN Abort(r.raised) /\ UNCHANGED <<type_errors, all_errors, completed>>
          ELSE /\ type_errors' = r.errors
               /\ all_errors' = all_errors \o r.errors
               /\ completed' = Append(completed, "types")
               /\ pc' = "config"
               /\ UNCHANGED <<raised, exit_code>>
    /\ UNCHANGED <<hashVars, regVars, hash_errors, collision_errors, ref_errors, ref_warnings,
                   config_errors, all_warnings, ci, check_config, status, config_h>>

\* lines 109-117: only with --check-config; the file is read when the pass runs
ConfigPass ==
    /\ pc = "config"
    /\ UNCHANGED <<toolVars, parseVars, pinVars>>
    /\ IF check_config
       THEN \E file \in ConfigFiles :
               /\ config_h' = file
               /\ config_errors' = validate_config_h(file, sensors, apps)
               /\ all_errors' = all_errors \o validate_config_h(file, sensors, apps)
               /\ completed' = Append(completed, "config")
       ELSE UNCHANGED <<config_h, config_errors, all_errors, completed>>
    /\ pc' = "summary"
    /\ UNCHANGED <<hashVars, regVars, hash_errors, collision_errors, ref_errors, ref_warnings,
                   type_errors, all_warnings, ci, check_config, status, exit_code, raised>>

\* lines 119-127
Summary ==
    /\ pc = "summary"
    /\ UNCHANGED <<toolVars, parseVars, pinVars>>
    /\ status' = IF all_errors = <<>> /\ all_warnings = <<>> THEN "PASSED"
                 ELSE IF all_errors = <<>> THEN "PASSED WITH WARNINGS"
                 ELSE "FAILED"
    /\ completed' = Append(completed, "summary")
    /\ pc' = "exit"
    /\ UNCHANGED <<hashVars, regVars, passVars, all_errors, all_warnings, ci, check_config,
                   exit_code, config_h, raised>>

\* lines 129-133
Exit ==
    /\ pc = "exit"
    /\ UNCHANGED <<toolVars, parseVars, pinVars>>
    /\ exit_code' = IF ci /\ all_errors # <<>> THEN 1 ELSE 0
    /\ pc' = "exited"
    /\ UNCHANGED <<hashVars, regVars, passVars, all_errors, all_warnings, ci, check_config,
                   status, completed, config_h, raised>>

Next ==
    \/ LoadRegistries
    \/ LoadFails
    \/ HashPass
    \/ CollisionPass
    \/ ReferencePass
    \/ TypePass
    \/ ConfigPass
    \/ Summary
    \/ Exit

Spec == Init /\ [][Next]_vars

\* the registries have been loaded and the process has ended
RunConcluded == pc = "exited" /\ "load" \in Range(completed)

AllPassErrors ==
    hash_errors \o collision_errors \o ref_errors \o type_errors \o config_errors

(***************************************************************************)
(* C9: a validation run never short-circuits: once the registries are      *)
(* loaded, the hash-correctness, hash-collision, cross-reference and       *)
(* measurement-type passes all run to completion, whatever earlier passes  *)
(* found, and when the run concludes the error list is the concatenation   *)
(* of every pass's errors and the warning list that of every pass's        *)
(* warnings.                                                               *)
(***************************************************************************)
RunCompletesEveryPass ==
    RunConcluded =>
        /\ {"hash", "collisions", "references", "types"} \subseteq Range(completed)
        /\ all_errors = AllPassErrors
        /\ all_warnings = ref_warnings

(***************************************************************************)
(* C10: validation findings are returned as values, never raised: for any  *)
(* registries the parser can produce, a named entry without nameHash or    *)
(* aliasHash and an entry without measurementType included, no pass leaves *)
(* the run with an exception.                                              *)
(***************************************************************************)
NoPassRaises == raised = ""

(***************************************************************************)
(* What does hold of the run: when no pass raises, every pass has run by   *)
(* the time the summary is printed, in the order hash, collisions,         *)
(* references, types, and the lists are the concatenations.                *)
(***************************************************************************)
RunAggregatesUnlessRaised ==
    (RunConcluded /\ raised = "") =>
        /\ \E tail \in {<<>>, <<"config">>} :
              completed = <<"load", "hash", "collisions", "references", "types">>
                              \o tail \o <<"summary">>
        /\ all_errors = AllPassErrors
        /\ all_warnings = ref_warnings

(***************************************************************************)
(* C11: in CI mode the validation tool exits with a non-zero code if and   *)
(* only if at least one error was found by a pass; a run with warnings     *)
(* only, or with no findings, exits with code 0.  Stated of the runs that  *)
(* loaded their registries.                                                *)
(***************************************************************************)
CiExitCodeFollowsErrors ==
    (RunConcluded /\ ci) => ((exit_code # 0) <=> (AllPassErrors # <<>>))

(***************************************************************************)
(* What does hold of the exit code: a run that reaches line 129 exits      *)
(* with 1 exactly when --ci is set and all_errors is not empty, else 0.    *)
(***************************************************************************)
ExitCodeFollowsErrorsUnlessRaised ==
    (RunConcluded /\ raised = "") =>
        exit_code = (IF ci /\ all_errors # <<>> THEN 1 ELSE 0)

(***************************************************************************)
(* Specification of the validate_config_h calls: a config.h and the two    *)
(* registries it is checked against are drawn, the function is applied.    *)
(* The block may declare more inputs than it defines, or fewer.            *)
(***************************************************************************)
IdleValidation ==
    /\ all_errors = <<>> /\ all_warnings = <<>> /\ ci = FALSE /\ check_config = FALSE
    /\ status = "" /\ exit_code = -1 /\ completed = <<>>

ConfigPins == {NoPin, "A0", "6"}

ConfigIndices == {NoDefine, 0, 1}

ConfigInputs == {Input(p, a, n) : p \in ConfigPins, a \in ConfigIndices, n \in ConfigIndices}

CheckedFiles ==
    {ConfigFile(FALSE, FALSE, NoCount, <<>>), ConfigFile(TRUE, FALSE, NoCount, <<>>)}
    \cup {ConfigFile(TRUE, TRUE, c, defs) :
            c \in {NoCount} \cup (0..MaxConfigInputs),
            defs \in UNION {[1..k -> ConfigInputs] : k \in 0..MaxConfigInputs}}

\* registries with sensor 0 and application 0, or with sensors 0 and 1 and no application
CheckedRegistries ==
    {<<ByPosition(<<Sensor(0, NameC, djb2_hash(NameC), TRUE, "T")>>),
       ByPosition(<<App(0, NameC, djb2_hash(NameC), TRUE, 0, "T")>>)>>,
     <<ByPosition(<<Sensor(0, NameC, djb2_hash(NameC), TRUE, "T"),
                    Sensor(0, NoName, 0, FALSE, "T")>>),
       <<>>>>}

InitConfig ==
    /\ IdleHeaders /\ IdleParse /\ IdlePin
    /\ pc = "call"
    /\ IdleTool
    /\ config_h \in CheckedFiles
    /\ \E r \in CheckedRegistries : sensors = r[1] /\ apps = r[2]
    /\ units = <<>>
    /\ raised = ""
    /\ IdleHash /\ IdlePasses /\ IdleValidation

CallConfigH ==
    /\ pc = "call"
    /\ UNCHANGED <<toolVars, parseVars, pinVars>>
    /\ config_errors' = validate_config_h(config_h, sensors, apps)
    /\ pc' = "checked"
    /\ UNCHANGED <<hashVars, regVars, hash_errors, collision_errors, ref_errors, ref_warnings,
                   type_errors, runVars, raised>>

NextConfig == CallConfigH

SpecConfig == InitConfig /\ [][NextConfig]_vars

\* what the block says of input i, and the conditions the pass reports
Declared(i) == InputDefines(config_h, i)

DuplicatePin(i) ==
    Declared(i).pin # NoPin /\ \E j \in 0..(i - 1) : Declared(j).pin = Declared(i).pin

UnknownApplication(i) ==
    Declared(i).app # NoDefine /\ \A k \in 1..Len(apps) : apps[k].index # Declared(i).app

UnknownSensor(i) ==
    Declared(i).sensor # NoDefine
    /\ \A k \in 1..Len(sensors) : sensors[k].index # Declared(i).sensor

ConfigKinds ==
    {"config.h: INPUT_PIN is not defined", "config.h: Duplicate pin assignment",
     "config.h: INPUT_APPLICATION is not defined",
     "config.h: references non-existent APPLICATION",
     "config.h: INPUT_SENSOR is not defined", "config.h: references non-existent SENSOR"}

HasFault(kind, i) ==
    CASE kind = "config.h: INPUT_PIN is not defined" -> Declared(i).pin = NoPin
      [] kind = "config.h: Duplicate pin assignment" -> DuplicatePin(i)
      [] kind = "config.h: INPUT_APPLICATION is not defined" -> Declared(i).app = NoDefine
      [] kind = "config.h: references non-existent APPLICATION" -> UnknownApplication(i)
      [] kind = "config.h: INPUT_SENSOR is not defined" -> Declared(i).sensor = NoDefine
      [] kind = "config.h: references non-existent SENSOR" -> UnknownSensor(i)

ExpectedConfigErrors ==
    {f \in ConfigKinds \X (0..(config_h.count - 1)) : HasFault(f[1], f[2])}

BlockDeclaresCount == config_h.found /\ config_h.block /\ config_h.count # NoCount

(***************************************************************************)
(* C12: validate_config_h, given a block declaring N inputs, reports for   *)
(* every i in 0..N-1 one error for each of the pin, application-index and  *)
(* sensor-index declarations that is missing, one if the pin of input i    *)
(* equals the pin of a lower-numbered input, and one if the application    *)
(* index or the sensor index is not an index of its registry; it returns   *)
(* no error exactly when none of these holds for any i.  A missing file,   *)
(* block or input count yields a single error and no per-input check.      *)
(***************************************************************************)
ConfigHReportsExactlyItsFaults ==
    pc = "checked" =>
        IF BlockDeclaresCount
        THEN /\ {<<config_errors[k].kind, config_errors[k].index>> : k \in 1..Len(config_errors)}
                    = ExpectedConfigErrors
             /\ Len(config_errors) = Cardinality(ExpectedConfigErrors)
             /\ (config_errors = <<>>) <=>
                    \A i \in 0..(config_h.count - 1), k \in ConfigKinds : ~HasFault(k, i)
        ELSE Len(config_errors) = 1 /\ config_errors[1].index = -1

\* two inputs on pin A0, everything else in order: the one error is the duplicate on input 1
DuplicatePinReported ==
    /\ pc = "checked"
    /\ config_h = ConfigFile(TRUE, TRUE, 2, <<Input("A0", 0, 0), Input("A0", 0, 0)>>)
    /\ Len(config_errors) = 1
    /\ config_errors[1].kind = "config.h: Duplicate pin assignment"
    /\ config_errors[1].index = 1

(***************************************************************************)
(* Specification of the validate_pin_type_compatibility calls: the inputs  *)
(* of a persisted document and a sensor registry are drawn, the function   *)
(* is applied.  The pins are the strings over A, a, D, 6, blank and minus, *)
(* and the spellings of the I2C marker.                                    *)
(***************************************************************************)
PinAlphabet == {65, 97, 68, 54, 32, 45}

PinStrings ==
    UNION {[1..n -> PinAlphabet] : n \in 0..MaxPinLen}
    \cup {I2C, <<105, 50, 99>>, <<73, 50, 99>>, <<32, 73, 50, 67>>}

Unified(idx, pin, app, appIndex, sn, snIndex) ==
    [idx |-> idx, pin |-> pin, application |-> app, applicationIndex |-> appIndex,
     sensor |-> sn, sensorIndex |-> snIndex]

\* sensor 0 wants I2C, 1 a digital pin, 2 an analog pin, 3 declares nothing
GateSensors ==
    ByPosition(<<PinSensor(0, NameC, TRUE, "T", PIN_I2C),
                 PinSensor(0, NameAb, TRUE, "T", PIN_DIGITAL),
                 PinSensor(0, NameaB, TRUE, "P", PIN_ANALOG),
                 PinSensor(0, NameC, TRUE, "P", NoRequirement)>>)

\* two entries annotated with index 0: the first wants a digital pin, the second I2C
GateSensorsTwice ==
    <<PinSensor(0, NameAb, TRUE, "T", PIN_DIGITAL), PinSensor(0, NameC, TRUE, "T", PIN_I2C)>>

GateInputs ==
    {<<Unified(0, p, NameC, 0, NameC, n)>> : p \in PinStrings, n \in {NoSensor} \cup (0..4)}
    \cup {<<Unified(0, p, NameC, 0, NameC, n), Unified(1, q, NameC, 0, NameC, 1)>> :
            p \in PinStrings, n \in 0..3, q \in {I2C, <<54>>}}

InitPinGate ==
    /\ IdleHeaders /\ IdleParse /\ IdlePin
    /\ pc = "call"
    /\ config_inputs \in GateInputs
    /\ sensors \in {GateSensors, GateSensorsTwice}
    /\ apps = <<>> /\ units = <<>>
    /\ raised = ""
    /\ args_load = FALSE /\ generate_thin_libs = FALSE /\ document = NoDocument
    /\ pin_errors = <<>> /\ inputs = <<>> /\ unified = <<>> /\ round_trip = <<>>
    /\ original_timestamp = NoTimestamp /\ config_modified = FALSE
    /\ should_add_new = FALSE /\ now = 0
    /\ target = NoFile /\ backup = NoFile /\ calibration_file = NoFile
    /\ thin_libraries = NoFile /\ writable = FALSE /\ messages = <<>>
    /\ platform = "uno"
    /\ IdleHash /\ IdlePasses /\ IdleRun

CallPinGate ==
    /\ pc = "call"
    /\ pin_errors' = validate_pin_type_compatibility(config_inputs, sensors)
    /\ pc' = "gated"
    /\ UNCHANGED <<hashVars, regVars, passVars, runVars, raised, parseVars, pinVars,
                   args_load,
                   generate_thin_libs, document, config_inputs, inputs, unified, round_trip,
                   original_timestamp, config_modified, should_add_new, now, target, backup,
                   calibration_file, thin_libraries, writable, messages, platform>>

NextPinGate == CallPinGate

SpecPinGate == InitPinGate /\ [][NextPinGate]_vars

\* the selected sensor of input k: the first entry with its sensorIndex, 0 for none
Selected(k) == FindSensor(sensors, config_inputs[k].sensorIndex, 1)

RequirementOf(k) == sensors[Selected(k)].pinTypeRequirement

\* the errors about input k (idx is k - 1 in the drawn documents)
PinErrorsAbout(k) == {j \in 1..Len(pin_errors) : pin_errors[j].index = k - 1}

PinErrorsOfKind(k, kind) == {j \in PinErrorsAbout(k) : pin_errors[j].kind = kind}

GateChecked == {k \in 1..Len(config_inputs) : Selected(k) # 0}

(***************************************************************************)
(* C13 as claimed: an error is reported for every input whose selected     *)
(* sensor requires I2C and whose pin does not literally equal the marker   *)
(* "I2C", and for every input whose pin is the marker while its selected   *)
(* sensor is not an I2C-requiring sensor.                                  *)
(***************************************************************************)
MarkerIsLiteralAndExclusive ==
    pc = "gated" =>
        \A k \in GateChecked :
            /\ (RequirementOf(k) = PIN_I2C /\ config_inputs[k].pin # I2C)
                    => PinErrorsAbout(k) # {}
            /\ (RequirementOf(k) # PIN_I2C /\ config_inputs[k].pin = I2C)
                    => PinErrorsAbout(k) # {}

(***************************************************************************)
(* C13 as amended: the marker is compared after upper-casing the pin and   *)
(* the rule binds the sensors that declare a requirement.  For every input *)
(* whose selected sensor (the first with its sensorIndex) requires I2C     *)
(* there is one error exactly when the upper-cased pin is not "I2C"; for   *)
(* every input whose selected sensor declares another requirement there is *)
(* one marker error exactly when the upper-cased pin is "I2C"; an input    *)
(* whose sensor is not found or declares no requirement gets no error.     *)
(***************************************************************************)
MarkerIsCaselessAndBindsDeclaredRequirements ==
    pc = "gated" =>
        \A k \in 1..Len(config_inputs) :
            LET mustUse == PinErrorsOfKind(k, "I2C sensor must use 'I2C' as pin")
                cannotUse ==
                    PinErrorsOfKind(k, "Sensor cannot use 'I2C' as pin (only I2C sensors)")
            IN IF Selected(k) = 0 \/ RequirementOf(k) = NoRequirement
               THEN PinErrorsAbout(k) = {}
               ELSE IF RequirementOf(k) = PIN_I2C
               THEN /\ Cardinality(mustUse) =
                          (IF Upper(config_inputs[k].pin) # I2C THEN 1 ELSE 0)
                    /\ PinErrorsAbout(k) = mustUse
               ELSE /\ Cardinality(cannotUse) =
                          (IF Upper(config_inputs[k].pin) = I2C THEN 1 ELSE 0)
                    /\ mustUse = {}

\* an I2C sensor on pin "i2c" passes, while a digital sensor on "I2C" is reported
LowerCaseMarkerAccepted ==
    /\ pc = "gated"
    /\ sensors = GateSensors
    /\ Len(config_inputs) = 2
    /\ config_inputs[1].pin = <<105, 50, 99>> /\ config_inputs[1].sensorIndex = 0
    /\ config_inputs[2].pin = I2C
    /\ Len(pin_errors) = 1
    /\ pin_errors[1].index = 1
    /\ pin_errors[1].kind = "Sensor cannot use 'I2C' as pin (only I2C sensors)"

(***************************************************************************)
(* C14: for every input whose selected sensor declares a digital (resp.    *)
(* analog) pin requirement an error is reported unless the pin string      *)
(* parses as a digital (resp. analog) pin, where a pin string parses as    *)
(* the I2C marker, else as the letter prefix plus an integer (analog),     *)
(* else as a bare integer (digital); a pin string that parses as none of   *)
(* these does not satisfy the requirement.                                 *)
(***************************************************************************)
PinTypeRequirementEnforced ==
    pc = "gated" =>
        \A k \in GateChecked :
            /\ (RequirementOf(k) = PIN_DIGITAL /\ parse_pin(config_inputs[k].pin).type # "digital")
                    => PinErrorsAbout(k) # {}
            /\ (RequirementOf(k) = PIN_ANALOG /\ parse_pin(config_inputs[k].pin).type # "analog")
                    => PinErrorsAbout(k) # {}

(***************************************************************************)
(* What does hold of the digital and analog requirements: a pin that       *)
(* parses as the other of the two types is reported once, a pin that does  *)
(* not parse, or that is the marker with blanks around it, is passed.      *)
(***************************************************************************)
PinTypeRequirementEnforcedWhenParsed ==
    pc = "gated" =>
        \A k \in GateChecked :
            LET parsed == parse_pin(config_inputs[k].pin).type
                marker == Upper(config_inputs[k].pin) = I2C
            IN /\ RequirementOf(k) = PIN_DIGITAL =>
                    Cardinality(PinErrorsAbout(k)) = (IF marker \/ parsed = "analog" THEN 1 ELSE 0)
               /\ RequirementOf(k) = PIN_ANALOG =>
                    Cardinality(PinErrorsAbout(k)) = (IF marker \/ parsed = "digital" THEN 1 ELSE 0)

(***************************************************************************)
(* convert_to_unified_format and convert_from_unified_format.  An input    *)
(* is a dict; the calibration key is there or not, which the record's      *)
(* domain says.                                                            *)
(***************************************************************************)
Internal(n, pin, app, appIndex, sn, snIndex) ==
    [input_number |-> n, pin |-> pin, application |-> app, application_index |-> appIndex,
     sensor |-> sn, sensor_index |-> snIndex]

Calibration(type, source, params) == [type |-> type, source |-> source, params |-> params]

\* 'calibration' in inp
HasCalibration(inp) == "calibration" \in DOMAIN inp

\* inp['calibration'] = cal
WithCalibration(inp, cal) ==
    [k \in DOMAIN inp \cup {"calibration"} |-> IF k = "calibration" THEN cal ELSE inp[k]]

\* del inp['calibration']
WithoutCalibration(inp) == [k \in DOMAIN inp \ {"calibration"} |-> inp[k]]

convert_to_unified_format(list) ==
    [i \in 1..Len(list) |->
        LET inp == list[i]
            unified_inp == Unified(inp.input_number, inp.pin, inp.application,
                                   inp.application_index, inp.sensor, inp.sensor_index)
        IN IF HasCalibration(inp) THEN WithCalibration(unified_inp, inp.calibration)
           ELSE unified_inp]

\* the conversion without lines 221-222
convert_from_unified_format_drops_calibration(list) ==
    [i \in 1..Len(list) |->
        Internal(list[i].idx, list[i].pin, list[i].application, list[i].applicationIndex,
                 list[i].sensor, list[i].sensorIndex)]

convert_from_unified_format(list) ==
    [i \in 1..Len(list) |->
        LET inp == list[i]
            internal_inp == Internal(inp.idx, inp.pin, inp.application, inp.applicationIndex,
                                     inp.sensor, inp.sensorIndex)
        IN IF HasCalibration(inp) THEN WithCalibration(internal_inp, inp.calibration)
           ELSE internal_inp]

(***************************************************************************)
(* Specification of the conversions: a finalized input list is drawn and   *)
(* converted to the document format and back.                              *)
(***************************************************************************)
PinA0 == <<65, 48>>

Pin6 == <<54>>

Thermistor == Calibration("THERMISTOR_STEINHART", "CUSTOM", [biasResistor |-> 1000])

Rpm == Calibration("RPM", "CUSTOM", [poles |-> 12, timeoutMs |-> 2000])

ConvertedItems ==
    LET plain == {Internal(n, p, NameC, a, NameAb, 1) :
                    n \in {0, 1}, p \in {PinA0, Pin6}, a \in {0, 1}}
    IN plain \cup {WithCalibration(inp, c) : inp \in plain, c \in {Thermistor, Rpm}}

IdleToolFiles ==
    /\ args_load = FALSE /\ generate_thin_libs = FALSE /\ document = NoDocument
    /\ config_inputs = <<>> /\ pin_errors = <<>>
    /\ original_timestamp = NoTimestamp /\ config_modified = FALSE
    /\ should_add_new = FALSE /\ now = 0
    /\ target = NoFile /\ backup = NoFile /\ calibration_file = NoFile
    /\ thin_libraries = NoFile /\ writable = FALSE /\ messages = <<>>
    /\ platform = "uno"

InitConvert ==
    /\ IdleHeaders /\ IdleParse /\ IdlePin
    /\ pc = "call"
    /\ inputs \in UNION {[1..n -> ConvertedItems] : n \in 0..MaxInputs}
    /\ unified = <<>> /\ round_trip = <<>>
    /\ raised = ""
    /\ IdleToolFiles
    /\ IdleHash /\ IdleRegistries /\ IdlePasses /\ IdleRun

CallConvert ==
    /\ pc = "call"
    /\ unified' = convert_to_unified_format(inputs)
    /\ round_trip' = convert_from_unified_format(convert_to_unified_format(inputs))
    /\ pc' = "converted"
    /\ UNCHANGED <<hashVars, regVars, passVars, runVars, raised, parseVars, pinVars,
                   args_load,
                   generate_thin_libs, document, config_inputs, pin_errors, inputs,
                   original_timestamp, config_modified, should_add_new, now, target, backup,
                   calibration_file, thin_libraries, writable, messages, platform>>

NextConvert == CallConvert

SpecConvert == InitConvert /\ [][NextConvert]_vars

(***************************************************************************)
(* C16: convert_from_unified_format(convert_to_unified_format(L)) equals L *)
(* field for field and in the same order, for every finalized input list L *)
(* whose items carry input_number, pin, application, application_index,    *)
(* sensor, sensor_index and optionally calibration; an item without        *)
(* calibration has none after the round trip, an item with calibration     *)
(* keeps it unchanged.                                                     *)
(***************************************************************************)
RoundTripReproducesInputs ==
    pc = "converted" =>
        /\ Len(round_trip) = Len(inputs)
        /\ \A i \in 1..Len(inputs) :
              /\ DOMAIN round_trip[i] = DOMAIN inputs[i]
              /\ \A k \in DOMAIN inputs[i] : round_trip[i][k] = inputs[i][k]
              /\ HasCalibration(round_trip[i]) <=> HasCalibration(inputs[i])
        /\ round_trip = inputs
        /\ \A i \in 1..Len(inputs) :
              /\ unified[i].idx = inputs[i].input_number
              /\ unified[i].applicationIndex = inputs[i].application_index
              /\ unified[i].sensorIndex = inputs[i].sensor_index

\* a list of a calibrated and an uncalibrated input has gone there and back
MixedListRoundTripped ==
    /\ pc = "converted"
    /\ Len(inputs) = 2
    /\ HasCalibration(inputs[1]) /\ ~HasCalibration(inputs[2])
    /\ round_trip[1].calibration = Rpm
    /\ ~HasCalibration(round_trip[2])
    /\ unified[1].idx = 1 /\ unified[2].idx = 0

(***************************************************************************)
(* validate_pin and the prompts of the configuration tool.                 *)
(***************************************************************************)
\* PLATFORM_LIMITS, and get_platform_limits' fall-back to "uno"
PlatformLimits(pf) ==
    CASE pf = "megaatmega2560" -> [analog |-> 16, digital |-> 54, max_inputs |-> 16]
      [] pf = "teensy36" -> [analog |-> 25, digital |-> 58, max_inputs |-> 25]
      [] pf = "teensy40" -> [analog |-> 14, digital |-> 40, max_inputs |-> 14]
      [] OTHER -> [analog |-> 6, digital |-> 14, max_inputs |-> 8]

RESERVED_PINS == {2, 3, 4, 5, 9}

\* [p.upper() for p in used_pins]
UpperAll(pins) == [i \in 1..Len(pins) |-> Upper(pins[i])]

\* validate_pin without the look into used_pins
validate_pinIgnoringUse(pin_str, pf, used_pins, sensor_pin_requirement) ==
    LET parsed == parse_pin(pin_str)
        limits == PlatformLimits(pf)
        requirement == Requirement(sensor_pin_requirement)
        platformError ==
            IF parsed.type = "i2c" THEN ""
            ELSE IF parsed.type = "analog" /\ parsed.num >= limits.analog
            THEN "Analog pin exceeds platform limit"
            ELSE IF parsed.type = "digital" /\ parsed.num >= limits.digital
            THEN "Digital pin exceeds platform limit"
            ELSE IF parsed.type = "digital" /\ parsed.num \in RESERVED_PINS
            THEN "Pin is reserved"
            ELSE ""
        requirementError ==
            IF sensor_pin_requirement = NoRequirement THEN ""
            ELSE IF requirement = <<105, 50, 99>>
            THEN IF Upper(pin_str) # I2C THEN "I2C sensor must use 'I2C' as pin" ELSE ""
            ELSE IF Upper(pin_str) = I2C THEN "Only I2C sensors can use 'I2C' as pin"
            ELSE IF requirement = <<100, 105, 103, 105, 116, 97, 108>> /\ parsed.type = "analog"
            THEN "Sensor requires a digital pin"
            ELSE IF requirement = <<97, 110, 97, 108, 111, 103>> /\ parsed.type = "digital"
            THEN "Sensor requires an analog pin"
            ELSE ""
    IN IF parsed.type = "none" THEN "Invalid pin format"
       ELSE IF platformError # "" THEN platformError
       ELSE requirementError

\* the error validate_pin returns, "" for None
validate_pin(pin_str, pf, used_pins, sensor_pin_requirement) ==
    LET parsed == parse_pin(pin_str)
        limits == PlatformLimits(pf)
        requirement == Requirement(sensor_pin_requirement)
        platformError ==
            IF parsed.type = "i2c" THEN ""
            ELSE IF parsed.type = "analog" /\ parsed.num >= limits.analog
            THEN "Analog pin exceeds platform limit"
            ELSE IF parsed.type = "digital" /\ parsed.num >= limits.digital
            THEN "Digital pin exceeds platform limit"
            ELSE IF parsed.type = "digital" /\ parsed.num \in RESERVED_PINS
            THEN "Pin is reserved"
            ELSE IF Upper(pin_str) \in Range(UpperAll(used_pins))
            THEN "Pin is already in use."
            ELSE ""
        requirementError ==
            IF sensor_pin_requirement = NoRequirement THEN ""
            ELSE IF requirement = <<105, 50, 99>>
            THEN IF Upper(pin_str) # I2C THEN "I2C sensor must use 'I2C' as pin" ELSE ""
            ELSE IF Upper(pin_str) = I2C THEN "Only I2C sensors can use 'I2C' as pin"
            ELSE IF requirement = <<100, 105, 103, 105, 116, 97, 108>> /\ parsed.type = "analog"
            THEN "Sensor requires a digital pin"
            ELSE IF requirement = <<97, 110, 97, 108, 111, 103>> /\ parsed.type = "digital"
            THEN "Sensor requires an analog pin"
            ELSE ""
    IN IF parsed.type = "none" THEN "Invalid pin format"
       ELSE IF platformError # "" THEN platformError
       ELSE requirementError

\* list.remove(x): the first occurrence goes
RECURSIVE RemoveFirst(_, _)
RemoveFirst(list, x) ==
    IF list = <<>> THEN <<>>
    ELSE IF list[1] = x THEN Tail(list)
    ELSE <<list[1]>> \o RemoveFirst(Tail(list), x)

\* prompt_for_pin: what one answer becomes, and whether the prompt returns it
PromptedPin(typed, default) ==
    IF Upper(Strip(typed)) # <<>> THEN Upper(Strip(typed)) ELSE default

PromptAccepts(typed, pf, used_pins, default, sensor_info) ==
    LET pin_str == PromptedPin(typed, default)
        upper_used == UpperAll(used_pins)
        temp_used_pins ==
            IF default # <<>> /\ pin_str = Upper(default) /\ Upper(default) \in Range(upper_used)
            THEN RemoveFirst(upper_used, Upper(default))
            ELSE upper_used
    IN /\ pin_str # <<>>
       /\ validate_pin(pin_str, pf, temp_used_pins, sensor_info.pinTypeRequirement) = ""

\* [str(i['pin']) for i in inputs]
UsedPins(list) == [i \in 1..Len(list) |-> list[i].pin]

\* the entries a selection prompt offers, and the first entry with an index
Implemented(entries) == SelectSeq(entries, LAMBDA e : e.is_implemented)

Compatible(ss, app) ==
    SelectSeq(ss, LAMBDA e : e.is_implemented
                              /\ e.measurementType = app.expectedMeasurementType)

RECURSIVE FirstWithIndex(_, _, _)
FirstWithIndex(entries, idx, i) ==
    IF i > Len(entries) THEN 0
    ELSE IF entries[i].index = idx THEN i ELSE FirstWithIndex(entries, idx, i + 1)

\* the answers to the prompts of one edit or one addition
Answers(app_index, sensor_index, typed, custom_cal) ==
    [app_index |-> app_index, sensor_index |-> sensor_index, typed |-> typed,
     custom_cal |-> custom_cal]

NoCalibration == Calibration("", "", [none |-> 0])

\* the prompts return: the application and the sensor are on offer, the pin is valid
AnswersAccepted(ans, default, pf, used_pins, ss, aa) ==
    /\ FirstWithIndex(Implemented(aa), ans.app_index, 1) # 0
    /\ LET app == Implemented(aa)[FirstWithIndex(Implemented(aa), ans.app_index, 1)]
           offered == Compatible(ss, app)
       IN /\ FirstWithIndex(offered, ans.sensor_index, 1) # 0
          /\ PromptAccepts(ans.typed, pf, used_pins, default,
                           offered[FirstWithIndex(offered, ans.sensor_index, 1)])

\* the input the answers describe (lines 242-253 and 366-375)
Answered(n, ans, default, ss, aa) ==
    LET app == Implemented(aa)[FirstWithIndex(Implemented(aa), ans.app_index, 1)]
        offered == Compatible(ss, app)
        sn == offered[FirstWithIndex(offered, ans.sensor_index, 1)]
        inp == Internal(n, PromptedPin(ans.typed, default), app.name, ans.app_index,
                        sn.name, ans.sensor_index)
    IN IF ans.custom_cal # NoCalibration THEN WithCalibration(inp, ans.custom_cal) ELSE inp

\* edit_input
edit_input(inp, ans, ss, aa) == Answered(inp.input_number, ans, inp.pin, ss, aa)

\* the list with the numbers its inputs happen to have
NotRenumbered(list) == list

\* for i, inp in enumerate(inputs): inp['input_number'] = i
Renumbered(list) ==
    [i \in 1..Len(list) |->
        [k \in DOMAIN list[i] |-> IF k = "input_number" THEN i - 1 ELSE list[i][k]]]

\* inputs.pop(idx), idx >= 0 or counted from the end
Popped(list, idx) ==
    LET at == IF idx >= 0 THEN idx + 1 ELSE Len(list) + idx + 1
    IN SubSeq(list, 1, at - 1) \o SubSeq(list, at + 1, Len(list))

(***************************************************************************)
(* The generator (preobd_config/config_generator.py), modelled from the    *)
(* design: the config block between its markers, the patch of src/config.h *)
(* with its backup, the calibration tables and the thinned registries.     *)
(***************************************************************************)
BeginMarker == Line("BEGIN STATIC CONFIG", -1, -1, <<>>)

EndMarker == Line("END STATIC CONFIG", -1, -1, <<>>)

RECURSIVE InputDeclarations(_, _)
\* per input its pin and the indices of its application and its sensor
InputDeclarations(list, i) ==
    IF i > Len(list) THEN <<>>
    ELSE <<Line("INPUT_PIN", list[i].input_number, -1, list[i].pin),
           Line("INPUT_APPLICATION", list[i].input_number, list[i].application_index, <<>>),
           Line("INPUT_SENSOR", list[i].input_number, list[i].sensor_index, <<>>)>>
         \o InputDeclarations(list, i + 1)

generate_config_block(list, pf, stamp) ==
    <<BeginMarker, Line("generated", -1, stamp, <<>>),
      Line("NUM_CONFIGURED_INPUTS", -1, Len(list), <<>>)>>
    \o InputDeclarations(list, 1) \o <<EndMarker>>

RECURSIVE FindLine(_, _, _)
\* the first line of a kind at or after a position, 0 for none
FindLine(content, kind, from) ==
    IF from > Len(content) THEN 0
    ELSE IF content[from].kind = kind.kind THEN from
    ELSE FindLine(content, kind, from + 1)

\* the previous block of a file: the positions of its markers, 0 for none
BlockStart(content) == FindLine(content, BeginMarker, 1)

BlockEnd(content) ==
    IF BlockStart(content) = 0 THEN 0
    ELSE FindLine(content, EndMarker, BlockStart(content) + 1)

HasBlock(content) == BlockStart(content) # 0 /\ BlockEnd(content) # 0

\* the block replaced in place, or appended when there is none
Patched(content, new_block) ==
    IF HasBlock(content)
    THEN SubSeq(content, 1, BlockStart(content) - 1) \o new_block
         \o SubSeq(content, BlockEnd(content) + 1, Len(content))
    ELSE content \o new_block

\* update_config_h: the file is read, copied to the backup path and then
\* patched; FALSE, and the target as it was, when it cannot be read or written
update_config_h(content, old_backup, can_write, new_block) ==
    IF content = NoFile
    THEN [ok |-> FALSE, target |-> content, backup |-> old_backup]
    ELSE IF ~can_write
    THEN [ok |-> FALSE, target |-> content, backup |-> content]
    ELSE [ok |-> TRUE, target |-> Patched(content, new_block), backup |-> content]

\* an input with a custom calibration
IsCustom(inp) == HasCalibration(inp) /\ inp.calibration.source = "CUSTOM"

RECURSIVE CalibrationTables(_, _)
CalibrationTables(list, i) ==
    IF i > Len(list) THEN <<>>
    ELSE (IF IsCustom(list[i])
          THEN <<Line(list[i].calibration.type, list[i].input_number, -1, <<>>)>>
          ELSE <<>>)
         \o CalibrationTables(list, i + 1)

\* generate_static_calibrations_file: nothing when no input is custom
generate_static_calibrations_file(list) ==
    IF CalibrationTables(list, 1) = <<>> THEN <<>>
    ELSE <<Line("static_calibrations.h", -1, -1, <<>>)>> \o CalibrationTables(list, 1)

\* generate_thin_library_files: the entries the inputs refer to, in registry order
generate_thin_library_files(list, ss, aa) ==
    LET sensorRefs == {list[i].sensor_index : i \in 1..Len(list)}
        appRefs == {list[i].application_index : i \in 1..Len(list)}
        thinSensors == SelectSeq(ss, LAMBDA e : e.index \in sensorRefs)
        thinApps == SelectSeq(aa, LAMBDA e : e.index \in appRefs)
    IN [i \in 1..Len(thinSensors) |-> Line("sensor", thinSensors[i].index, -1,
                                           thinSensors[i].name)]
       \o [i \in 1..Len(thinApps) |-> Line("application", thinApps[i].index, -1,
                                           thinApps[i].name)]

(***************************************************************************)
(* The run of tools/configure.py: main, step by step.  completed logs the  *)
(* menu choices ("e", "a", "d") and the steps that wrote something.        *)
(***************************************************************************)
restVars == <<hashVars, passVars, all_errors, all_warnings, ci, check_config, status,
              config_h, unified, round_trip, raised, parseVars, pinVars>>

argVars == <<args_load, generate_thin_libs, now, writable, platform>>

fileVars == <<document, target, backup, calibration_file, thin_libraries>>

editVars == <<inputs, original_timestamp, config_modified, should_add_new>>

gateVars == <<config_inputs, pin_errors>>

\* sensor 0 sits on the I2C bus, sensor 1 on an analog pin; one application each
ToolSensors ==
    ByPosition(<<PinSensor(0, NameC, TRUE, "T", PIN_I2C),
                 PinSensor(0, NameAb, TRUE, "P", PIN_ANALOG)>>)

ToolApps ==
    ByPosition(<<App(0, NameC, djb2_hash(NameC), TRUE, 0, "T"),
                 App(0, NameAb, djb2_hash(NameAb), TRUE, 1, "P")>>)

ToolUnits == ByPosition(<<Unit(0, NameAb, djb2_hash(NameAb), NameC, djb2_hash(NameC))>>)

\* the headers of a project: complete, without any registry block, or with
\* sensor_library.h missing
ToolHeaders ==
    {Headers("block", "block", "block"), Headers("no block", "no block", "no block"),
     Headers("missing", "block", "block")}

PinA6 == <<65, 54>>

DefaultCalibration == Calibration("PRESSURE_LINEAR", "DEFAULT", [voltageMin |-> 0])

\* the documents --load may name
OnBus == Unified(0, I2C, NameC, 0, NameC, 0)

OnA0(idx) == Unified(idx, PinA0, NameAb, 1, NameAb, 1)

LoadedDocuments ==
    {NoDocument,
     Document(1, "static", "uno", 1, <<OnA0(0)>>),
     Document(1, "static", "uno", 1, <<WithCalibration(OnBus, Thermistor), OnA0(1)>>),
     Document(1, "static", "uno", NoTimestamp, <<WithCalibration(OnA0(0), DefaultCalibration)>>),
     Document(2, "static", "uno", 1, <<OnA0(0)>>),
     Document(1, "eeprom", "uno", 1, <<OnA0(0)>>),
     Document(1, "static", "uno", 1, <<Unified(0, Pin6, NameC, 0, NameC, 0)>>)}

\* src/config.h: absent, hand-written only, or with a block of an earlier run
PlainText == <<Line("text", -1, 1, <<>>)>>

BlockText ==
    <<Line("text", -1, 1, <<>>), BeginMarker, Line("NUM_CONFIGURED_INPUTS", -1, 0, <<>>),
      EndMarker, Line("text", -1, 2, <<>>)>>

StaleCalibrations ==
    <<Line("static_calibrations.h", -1, -1, <<>>), Line("RPM", 0, -1, <<>>)>>

\* what the user may type at the pin prompt, and the calibrations on offer
TypedPins == {<<>>, <<97, 48>>, PinA6, I2C, Pin6}

PromptedCalibrations == {NoCalibration, Thermistor}

PromptAnswers ==
    {Answers(a, n, p, c) : a \in 0..1, n \in 0..1, p \in TypedPins, c \in PromptedCalibrations}

InitConfigure ==
    /\ headers \in ToolHeaders
    /\ IdleParse /\ IdlePin
    /\ pc = "start"
    /\ args_load \in BOOLEAN
    /\ generate_thin_libs \in BOOLEAN
    /\ document \in (IF args_load THEN LoadedDocuments ELSE {NoDocument})
    /\ platform \in {"uno", "megaatmega2560"}
    /\ now = 5
    /\ target \in {NoFile, PlainText, BlockText}
    /\ writable \in BOOLEAN
    /\ backup = NoFile
    /\ calibration_file \in {NoFile, StaleCalibrations}
    /\ thin_libraries = NoFile
    /\ config_inputs = <<>> /\ pin_errors = <<>> /\ inputs = <<>>
    /\ unified = <<>> /\ round_trip = <<>>
    /\ original_timestamp = NoTimestamp /\ config_modified = FALSE
    /\ should_add_new = FALSE /\ messages = <<>>
    /\ all_errors = <<>> /\ all_warnings = <<>> /\ ci = FALSE /\ check_config = FALSE
    /\ status = "" /\ exit_code = -1 /\ completed = <<>>
    /\ config_h = ConfigFile(FALSE, FALSE, NoCount, <<>>)
    /\ raised = ""
    /\ IdleHash /\ IdleRegistries /\ IdlePasses

\* sys.exit(code)
ExitWith(code) == exit_code' = code /\ pc' = "exited"

\* lines 267-276: the registries are parsed, the platform is settled
LoadToolRegistries ==
    /\ pc = "start"
    /\ ~HeaderMissing
    /\ sensors' = (IF NoBlock("sensors") THEN <<>> ELSE ToolSensors)
    /\ apps' = (IF NoBlock("apps") THEN <<>> ELSE ToolApps)
    /\ units' = (IF NoBlock("units") THEN <<>> ELSE ToolUnits)
    /\ inputs' = <<>>
    /\ should_add_new' = TRUE
    /\ original_timestamp' = NoTimestamp
    /\ pc' = IF args_load THEN "open" ELSE "add"
    /\ UNCHANGED <<restVars, argVars, fileVars, gateVars, config_modified, exit_code,
                   completed, messages>>

\* lines 64-66 and 268: a registry header is missing
ToolRegistriesMissing ==
    /\ pc = "start"
    /\ HeaderMissing
    /\ ExitWith(1)
    /\ messages' = Append(messages, "Error: Could not find a registry file.")
    /\ UNCHANGED <<restVars, regVars, argVars, fileVars, gateVars, editVars, completed>>

\* lines 278-285, 345-347: the document is read; a file that cannot be read
\* or is not JSON ends the run
OpenDocument ==
    /\ pc = "open"
    /\ should_add_new' = FALSE
    /\ IF document = NoDocument
       THEN /\ ExitWith(1)
            /\ messages' = Append(messages, "Error loading config file")
            /\ UNCHANGED original_timestamp
       ELSE /\ original_timestamp' = document.metadata.timestamp
            /\ pc' = "schema"
            /\ UNCHANGED <<exit_code, messages>>
    /\ UNCHANGED <<restVars, regVars, argVars, fileVars, gateVars, inputs, config_modified,
                   completed>>

\* the check of lines 288-290 left out
CheckSchemaVersionSkipped ==
    /\ pc = "schema"
    /\ pc' = "mode"
    /\ UNCHANGED <<restVars, regVars, argVars, fileVars, gateVars, editVars, completed,
                   exit_code, messages>>

\* lines 288-290
CheckSchemaVersion ==
    /\ pc = "schema"
    /\ IF document.schemaVersion # 1
       THEN /\ ExitWith(1)
            /\ messages' = Append(messages, "Error: Only schemaVersion 1 is supported.")
       ELSE pc' = "mode" /\ UNCHANGED <<exit_code, messages>>
    /\ UNCHANGED <<restVars, regVars, argVars, fileVars, gateVars, editVars, completed>>

\* lines 292-294
CheckMode ==
    /\ pc = "mode"
    /\ IF document.mode # "static"
       THEN /\ ExitWith(1)
            /\ messages' = Append(messages, "Error: Only mode='static' configs can be loaded.")
       ELSE pc' = "pins" /\ UNCHANGED <<exit_code, messages>>
    /\ UNCHANGED <<restVars, regVars, argVars, fileVars, gateVars, editVars, completed>>

\* lines 296-308
CheckPinCompatibility ==
    /\ pc = "pins"
    /\ config_inputs' = document.inputs
    /\ pin_errors' = validate_pin_type_compatibility(document.inputs, sensors)
    /\ IF validate_pin_type_compatibility(document.inputs, sensors) # <<>>
       THEN /\ ExitWith(1)
            /\ messages' = Append(messages, "Configuration errors found:")
       ELSE pc' = "convert" /\ UNCHANGED <<exit_code, messages>>
    /\ UNCHANGED <<restVars, regVars, argVars, fileVars, editVars, completed>>

\* lines 310-315
ConvertDocument ==
    /\ pc = "convert"
    /\ inputs' = convert_from_unified_format(document.inputs)
    /\ config_modified' = FALSE
    /\ pc' = "menu"
    /\ UNCHANGED <<restVars, regVars, argVars, fileVars, gateVars, original_timestamp,
                   should_add_new, completed, exit_code, messages>>

\* a choice or a step is logged once
Logged(log, x) == IF x \in Range(log) THEN log ELSE Append(log, x)

\* the list position an index typed at the menu stands for, 0 for IndexError
Position(list, idx) ==
    IF idx >= 0 /\ idx < Len(list) THEN idx + 1
    ELSE IF idx < 0 /\ 0 - idx <= Len(list) THEN Len(list) + idx + 1
    ELSE 0

\* the numbers typed at the menu
EnteredNumbers == (0 - 1)..MaxInputs

\* lines 324-329: choice e, the number idx, prompts answered with ans
EditInputAt(idx, ans) ==
    /\ pc = "menu"
    /\ Position(inputs, idx) # 0
    /\ AnswersAccepted(ans, inputs[Position(inputs, idx)].pin, platform,
                       UsedPins(inputs), sensors, apps)
    /\ inputs' = [inputs EXCEPT ![Position(inputs, idx)] =
                      edit_input(inputs[Position(inputs, idx)], ans, sensors, apps)]
    /\ config_modified' = TRUE
    /\ completed' = Logged(completed, "e")
    /\ UNCHANGED <<pc, restVars, regVars, argVars, fileVars, gateVars, original_timestamp,
                   should_add_new, exit_code, messages>>

\* lines 324-329: choice e, an input of the list, prompts answered
EditInput == \E idx \in EnteredNumbers, ans \in PromptAnswers : EditInputAt(idx, ans)

\* lines 324-326, 330-331: choice e, then no number or no such input
EditInvalid ==
    /\ pc = "menu"
    /\ \E idx \in EnteredNumbers : Position(inputs, idx) = 0
    /\ completed' = Logged(completed, "e")
    /\ UNCHANGED <<pc, restVars, regVars, argVars, fileVars, gateVars, editVars, exit_code,
                   messages>>

\* lines 332-335: choice a; the list has room within the model's bound
ChooseAdd ==
    /\ pc = "menu"
    /\ Len(inputs) < MaxInputs
    /\ should_add_new' = TRUE
    /\ config_modified' = TRUE
    /\ completed' = Logged(completed, "a")
    /\ pc' = "add"
    /\ UNCHANGED <<restVars, regVars, argVars, fileVars, gateVars, inputs,
                   original_timestamp, exit_code, messages>>

\* lines 336-340: choice d, the number idx
DeleteInputAt(idx) ==
    /\ pc = "menu"
    /\ Position(inputs, idx) # 0
    /\ inputs' = Popped(inputs, idx)
    /\ config_modified' = TRUE
    /\ completed' = Logged(completed, "d")
    /\ UNCHANGED <<pc, restVars, regVars, argVars, fileVars, gateVars, original_timestamp,
                   should_add_new, exit_code, messages>>

\* lines 336-340: choice d, an input of the list
DeleteInput == \E idx \in EnteredNumbers : DeleteInputAt(idx)

\* lines 336-338, 341-342: choice d, then no number or no such input
DeleteInvalid ==
    /\ pc = "menu"
    /\ \E idx \in EnteredNumbers : Position(inputs, idx) = 0
    /\ completed' = Logged(completed, "d")
    /\ UNCHANGED <<pc, restVars, regVars, argVars, fileVars, gateVars, editVars, exit_code,
                   messages>>

\* lines 343-344: choice f
ChooseFinish ==
    /\ pc = "menu"
    /\ pc' = "add"
    /\ UNCHANGED <<restVars, regVars, argVars, fileVars, gateVars, editVars, exit_code,
                   completed, messages>>

\* lines 349-379: one turn of the add loop and the answer to "another?"
AddInput ==
    /\ pc = "add"
    /\ should_add_new
    /\ Len(inputs) < PlatformLimits(platform).max_inputs
    /\ Len(inputs) < MaxInputs
    /\ \E ans \in PromptAnswers, another \in BOOLEAN :
          /\ AnswersAccepted(ans, <<>>, platform, UsedPins(inputs), sensors, apps)
          /\ another => Len(inputs) + 1 < MaxInputs
          /\ inputs' = Append(inputs, Answered(Len(inputs), ans, <<>>, sensors, apps))
          /\ pc' = IF another /\ Len(inputs) + 1 < PlatformLimits(platform).max_inputs
                   THEN "add" ELSE "save"
    /\ UNCHANGED <<restVars, regVars, argVars, fileVars, gateVars, original_timestamp,
                   config_modified, should_add_new, exit_code, completed, messages>>

\* lines 349-350: nothing to add, or the platform's inputs are used up
SkipAdd ==
    /\ pc = "add"
    /\ ~should_add_new \/ Len(inputs) >= PlatformLimits(platform).max_inputs
    /\ pc' = "save"
    /\ UNCHANGED <<restVars, regVars, argVars, fileVars, gateVars, editVars, exit_code,
                   completed, messages>>

\* timestamp of lines 403-404
SavedTimestamp ==
    IF original_timestamp # NoTimestamp /\ original_timestamp # 0
       /\ ~config_modified /\ ~should_add_new
    THEN original_timestamp ELSE now

\* the save that does not ask whether anything changed
SaveDocumentAlways ==
    /\ pc = "save"
    /\ inputs' = Renumbered(inputs)
    /\ document' = Document(1, "static", platform, now,
                            convert_to_unified_format(Renumbered(inputs)))
    /\ completed' = Logged(completed, "save")
    /\ messages' = Append(messages, "Saved")
    /\ pc' = "generate"
    /\ UNCHANGED <<restVars, regVars, argVars, target, backup, calibration_file,
                   thin_libraries, gateVars, original_timestamp, config_modified,
                   should_add_new, exit_code>>

\* lines 381-417: the inputs are renumbered; a loaded document is rewritten
\* when something changed, a new one when the user asks for it
SaveDocument ==
    /\ pc = "save"
    /\ inputs' = Renumbered(inputs)
    /\ \E asked \in BOOLEAN :
          IF (args_load /\ (config_modified \/ should_add_new)) \/ (~args_load /\ asked)
          THEN /\ document' = Document(1, "static", platform, SavedTimestamp,
                                       convert_to_unified_format(Renumbered(inputs)))
               /\ completed' = Logged(completed, "save")
               /\ messages' = Append(messages, "Saved")
          ELSE UNCHANGED <<document, completed, messages>>
    /\ pc' = "generate"
    /\ UNCHANGED <<restVars, regVars, argVars, target, backup, calibration_file,
                   thin_libraries, gateVars, original_timestamp, config_modified,
                   should_add_new, exit_code>>

\* the patch that leaves no backup
GenerateConfigHWithoutBackup ==
    /\ pc = "generate"
    /\ LET r == update_config_h(target, backup, writable,
                                generate_config_block(inputs, platform, now))
       IN /\ target' = r.target
          /\ messages' = Append(messages, IF r.ok THEN "Backup: src/config.h.bak"
                                          ELSE "Failed to update src/config.h")
          /\ completed' = IF r.ok THEN Logged(completed, "config") ELSE completed
    /\ pc' = "calibration"
    /\ UNCHANGED <<restVars, regVars, argVars, document, backup, calibration_file,
                   thin_libraries, gateVars, editVars, exit_code>>

\* lines 419-426
GenerateConfigH ==
    /\ pc = "generate"
    /\ LET r == update_config_h(target, backup, writable,
                                generate_config_block(inputs, platform, now))
       IN /\ target' = r.target
          /\ backup' = r.backup
          /\ messages' = Append(messages, IF r.ok THEN "Backup: src/config.h.bak"
                                          ELSE "Failed to update src/config.h")
          /\ completed' = IF r.ok THEN Logged(completed, "config") ELSE completed
    /\ pc' = "calibration"
    /\ UNCHANGED <<restVars, regVars, argVars, document, calibration_file, thin_libraries,
                   gateVars, editVars, exit_code>>

\* the step without the removal of lines 440-444
GenerateCalibrationsLeavesStale ==
    /\ pc = "calibration"
    /\ IF generate_static_calibrations_file(inputs) # <<>>
       THEN /\ calibration_file' = generate_static_calibrations_file(inputs)
            /\ completed' = Logged(completed, "calibration")
       ELSE UNCHANGED <<calibration_file, completed>>
    /\ pc' = "thin"
    /\ UNCHANGED <<restVars, regVars, argVars, document, target, backup, thin_libraries,
                   gateVars, editVars, exit_code, messages>>

\* lines 428-444: the tables are written, which may fail, or the file of an
\* earlier run is removed
GenerateCalibrations ==
    /\ pc = "calibration"
    /\ IF generate_static_calibrations_file(inputs) # <<>>
       THEN \E written \in BOOLEAN :
               IF written
               THEN /\ calibration_file' = generate_static_calibrations_file(inputs)
                    /\ completed' = Logged(completed, "calibration")
                    /\ messages' = Append(messages, "Generated custom calibrations")
               ELSE /\ messages' = Append(messages, "Failed to write static_calibrations.h")
                    /\ UNCHANGED <<calibration_file, completed>>
       ELSE IF calibration_file # NoFile
       THEN /\ calibration_file' = NoFile
            /\ completed' = Logged(completed, "calibration")
            /\ messages' = Append(messages, "Removed static_calibrations.h")
       ELSE UNCHANGED <<calibration_file, completed, messages>>
    /\ pc' = "thin"
    /\ UNCHANGED <<restVars, regVars, argVars, document, target, backup, thin_libraries,
                   gateVars, editVars, exit_code>>

\* lines 446-450
GenerateThinLibraries ==
    /\ pc = "thin"
    /\ IF generate_thin_libs
       THEN /\ thin_libraries' = generate_thin_library_files(inputs, sensors, apps)
            /\ completed' = Logged(completed, "thin")
       ELSE UNCHANGED <<thin_libraries, completed>>
    /\ pc' = "ready"
    /\ UNCHANGED <<restVars, regVars, argVars, document, target, backup, calibration_file,
                   gateVars, editVars, exit_code, messages>>

\* line 452: main returns, the process ends with status 0
Finish ==
    /\ pc = "ready"
    /\ messages' = Append(messages, "Ready to compile")
    /\ ExitWith(0)
    /\ UNCHANGED <<restVars, regVars, argVars, fileVars, gateVars, editVars, completed>>

NextConfigure ==
    \/ LoadToolRegistries
    \/ ToolRegistriesMissing
    \/ OpenDocument
    \/ CheckSchemaVersion
    \/ CheckMode
    \/ CheckPinCompatibility
    \/ ConvertDocument
    \/ EditInput
    \/ EditInvalid
    \/ ChooseAdd
    \/ DeleteInput
    \/ DeleteInvalid
    \/ ChooseFinish
    \/ AddInput
    \/ SkipAdd
    \/ SaveDocument
    \/ GenerateConfigH
    \/ GenerateCalibrations
    \/ GenerateThinLibraries
    \/ Finish

SpecConfigure == InitConfigure /\ [][NextConfigure]_vars

(***************************************************************************)
(* Properties of the run of tools/configure.py.                            *)
(***************************************************************************)
\* the document --load names is one the load turns down
Rejected(d) ==
    /\ d.readable
    /\ \/ d.schemaVersion # 1
       \/ d.mode # "static"
       \/ validate_pin_type_compatibility(d.inputs, sensors) # <<>>

\* the registries are loaded and the document is one the load turns down
RejectedLoad == args_load /\ pc # "start" /\ Rejected(document)

StoppedBeforeGeneration ==
    /\ pc \in {"start", "open", "schema", "mode", "pins", "exited"}
    /\ pc = "exited" => exit_code = 1
    /\ completed = <<>>
    /\ backup = NoFile /\ thin_libraries = NoFile

\* C15: a run that loads a document with schemaVersion other than 1, a mode
\* other than "static" or a pin the gate reports never gets past the load:
\* it ends with exit status 1, and no step of it touches the document,
\* src/config.h, its backup, the calibration file or the thin libraries.
RejectedLoadNeverGenerates ==
    /\ [](RejectedLoad => StoppedBeforeGeneration)
    /\ [][RejectedLoad => UNCHANGED fileVars]_vars

\* a load the gate turned down after schemaVersion and mode had passed
GateRejectedLoadExited ==
    /\ pc = "exited" /\ exit_code = 1
    /\ args_load /\ document.readable
    /\ document.schemaVersion = 1 /\ document.mode = "static"
    /\ pin_errors # <<>>
    /\ target = BlockText /\ calibration_file = StaleCalibrations

\* metadata.timestamp of the document on disk
TimestampOf(d) == IF d.readable THEN d.metadata.timestamp ELSE NoTimestamp

ChoiceMade(log) == Range(log) \cap {"e", "a", "d"} # {}

\* C17: in a run that loaded a document and saw no edit, add or delete
\* choice no step changes the document's metadata timestamp; and a step that
\* changes the timestamp of a document sets it to the current time and
\* belongs to a run in which such a choice was made.
TimestampKeptUnlessChoiceMade ==
    [][/\ (args_load /\ ~ChoiceMade(completed'))
              => TimestampOf(document') = TimestampOf(document)
       /\ (document.readable /\ TimestampOf(document') # TimestampOf(document))
              => (TimestampOf(document') = now /\ ChoiceMade(completed))]_vars

\* a loaded document, the menu left with f at once, the run through to its end
LoadedAndFinishedUntouched ==
    /\ pc = "exited" /\ exit_code = 0
    /\ args_load /\ ~ChoiceMade(completed)
    /\ original_timestamp = 1
    /\ TimestampOf(document) = 1
    /\ "config" \in Range(completed)

\* the step of lines 419-426 in which update_config_h returned True
PatchSucceeds ==
    /\ pc = "generate" /\ pc' = "calibration"
    /\ messages'[Len(messages')] = "Backup: src/config.h.bak"

CalibrationStepDone == pc \in {"thin", "ready"} \/ (pc = "exited" /\ exit_code = 0)

NoCustomCalibration == \A i \in 1..Len(inputs) : ~IsCustom(inputs[i])

\* C19: once the calibration step has run over inputs none of which has a
\* custom calibration, there is no calibration file: one left by an earlier
\* run has been removed, and none has been written.
NoStaleCalibrationFile ==
    (CalibrationStepDone /\ NoCustomCalibration) => calibration_file = NoFile

\* the file of an earlier run removed in a run whose inputs have no table
StaleCalibrationFileRemoved ==
    /\ pc = "exited" /\ exit_code = 0
    /\ Len(inputs) > 0 /\ NoCustomCalibration
    /\ "Removed static_calibrations.h" \in Range(messages)
    /\ calibration_file = NoFile

\* C20: a run in which src/config.h could not be updated reports the failure
\* and does not end as a successful run.
FailedUpdateFailsTheRun ==
    (pc = "exited" /\ "Failed to update src/config.h" \in Range(messages))
        => exit_code # 0

\* what does hold for C20: the failure is printed, the document saved before
\* it stays as saved, and the calibration and thin-library steps still run
FailedUpdateIsReportedWithoutRollback ==
    [][(pc = "generate" /\ ~update_config_h(target, backup, writable,
                                generate_config_block(inputs, platform, now)).ok)
          => /\ messages'[Len(messages')] = "Failed to update src/config.h"
             /\ pc' = "calibration"
             /\ UNCHANGED <<document, target, calibration_file, thin_libraries>>]_vars

(***************************************************************************)
(* The struct-literal parser (_parse_structs) and the macro-invocation     *)
(* parser (_parse_x_macro_sensors).  The parsers walk the matches of a     *)
(* regular expression; a match is modelled by its groups: an entry by the  *)
(* digits of its "Index N:" annotation (empty when the group is None) and     *)
(* the field matches inside its braces, a field by its key and the text    *)
(* after the "=", an invocation by its arguments.  A parsed entry is a     *)
(* dict: a function from keys to values.  raw_c_block is left out.         *)
(***************************************************************************)
Nullptr == <<110, 117, 108, 108, 112, 116, 114>>

TrueToken == <<116, 114, 117, 101>>

FalseToken == <<102, 97, 108, 115, 101>>

\* a string macro the header defines, and one it does not
PSTR_A == <<80, 83, 84, 82, 95, 65>>

PSTR_B == <<80, 83, 84, 82, 95, 66>>

\* an enum constant of registry_enums.h
SENSOR_X == <<83, 69, 78, 83, 79, 82, 95, 88>>

\* Python values: None, bool, int, float (whole part and fraction digits), str
Val(kind, num, text) == [kind |-> kind, num |-> num, text |-> text]

NoneVal == Val("None", 0, <<>>)

BoolVal(b) == Val("bool", IF b THEN 1 ELSE 0, <<>>)

IntVal(n) == Val("int", n, <<>>)

FloatVal(whole, fraction) == Val("float", whole, fraction)

StrVal(text) == Val("str", 0, text)

ListVal(items) == Val("list", 0, items)

\* dict.get(key, default)
Get(item, key, default) == IF key \in DOMAIN item THEN item[key] ELSE default

\* item[key] = value
Set(item, key, value) ==
    [k \in DOMAIN item \cup {key} |-> IF k = key THEN value ELSE item[k]]

IsHexDigit(c) == IsDigit(c) \/ (c >= 65 /\ c <= 70) \/ (c >= 97 /\ c <= 102)

HexDigit(c) == IF IsDigit(c) THEN c - 48 ELSE IF c >= 97 THEN c - 87 ELSE c - 55

\* the value of a run of hexadecimal digits in which single underscores may
\* separate digits; -1 when the text is something else
RECURSIVE HexValue(_, _, _)
HexValue(str, i, acc) ==
    IF i > Len(str) THEN acc
    ELSE IF IsHexDigit(str[i]) THEN HexValue(str, i + 1, acc * 16 + HexDigit(str[i]))
    ELSE IF str[i] = 95 /\ i > 1 /\ i < Len(str) /\ IsHexDigit(str[i - 1])
            /\ IsHexDigit(str[i + 1])
    THEN HexValue(str, i + 1, acc)
    ELSE -1

StartsWith0x(str) == Len(str) >= 2 /\ str[1] = 48 /\ str[2] = 120

\* int(text, 16): white space around, an optional sign, an optional 0x or 0X
\* which an underscore may follow, hexadecimal digits; ok is FALSE where int
\* raises ValueError
PyIntBase16(text) ==
    LET st == Strip(text)
        signed == st # <<>> /\ st[1] \in {43, 45}
        unsigned == IF signed THEN Tail(st) ELSE st
        prefixed == Len(unsigned) >= 2 /\ unsigned[1] = 48 /\ unsigned[2] \in {120, 88}
        rest == IF prefixed THEN SubSeq(unsigned, 3, Len(unsigned)) ELSE unsigned
        body == IF prefixed /\ Len(rest) >= 2 /\ rest[1] = 95 THEN Tail(rest) ELSE rest
        v == IF body = <<>> THEN -1 ELSE HexValue(body, 1, 0)
    IN IF v = -1 THEN [ok |-> FALSE, value |-> 0]
       ELSE [ok |-> TRUE, value |-> IF signed /\ st[1] = 45 THEN 0 - v ELSE v]

RECURSIVE IndexOf(_, _, _)
\* str.find(c): the first position of a code point at or after i, 0 for none
IndexOf(str, c, i) ==
    IF i > Len(str) THEN 0 ELSE IF str[i] = c THEN i ELSE IndexOf(str, c, i + 1)

RECURSIVE RStripZeros(_)
RStripZeros(str) ==
    IF str # <<>> /\ str[Len(str)] = 48 THEN RStripZeros(SubSeq(str, 1, Len(str) - 1))
    ELSE str

\* float(text) for a text with a point: white space around, an optional
\* sign, digits on at least one side of the point.  Exponents, inf and nan
\* are not among the texts of the model.
PyFloat(text) ==
    LET st == Strip(text)
        signed == st # <<>> /\ st[1] \in {43, 45}
        body == IF signed THEN Tail(st) ELSE st
        dot == IndexOf(body, 46, 1)
        whole == SubSeq(body, 1, dot - 1)
        fraction == SubSeq(body, dot + 1, Len(body))
        w == IF whole = <<>> THEN 0 ELSE DigitsValue(whole, 1, 0)
        f == IF fraction = <<>> THEN 0 ELSE DigitsValue(fraction, 1, 0)
    IN IF dot = 0 \/ (whole = <<>> /\ fraction = <<>>) \/ w = -1 \/ f = -1
       THEN [ok |-> FALSE, value |-> NoneVal]
       ELSE [ok |-> TRUE,
             value |-> FloatVal(IF signed /\ st[1] = 45 THEN 0 - w ELSE w,
                             RStripZeros(SelectSeq(fraction, IsDigit)))]

RECURSIVE BeforeComment(_, _)
\* str.split('//')[0]
BeforeComment(str, i) ==
    IF i >= Len(str) THEN str
    ELSE IF str[i] = 47 /\ str[i + 1] = 47 THEN SubSeq(str, 1, i - 1)
    ELSE BeforeComment(str, i + 1)

\* line 108: field_match.group(2).strip().split('//')[0].strip()
ValueStr(text) == Strip(BeforeComment(Strip(text), 1))

\* the outcome of resolving one field: the value, the macro it came from
\* (empty when it came from none), or the exception
FieldValue(value, macro) == [raised |-> "", value |-> value, macro |-> macro]

\* lines 110-131: the value of one field
ResolveField(text, macros, enums) ==
    LET value_str == ValueStr(text)
    IN IF value_str \in DOMAIN macros THEN FieldValue(StrVal(macros[value_str]), value_str)
       ELSE IF value_str \in DOMAIN enums THEN FieldValue(IntVal(enums[value_str]), <<>>)
       ELSE IF value_str = Nullptr THEN FieldValue(NoneVal, <<>>)
       ELSE IF value_str = TrueToken THEN FieldValue(BoolVal(TRUE), <<>>)
       ELSE IF value_str = FalseToken THEN FieldValue(BoolVal(FALSE), <<>>)
       ELSE IF StartsWith0x(value_str)
       THEN IF PyIntBase16(value_str).ok
            THEN FieldValue(IntVal(PyIntBase16(value_str).value), <<>>)
            ELSE [raised |-> "ValueError", value |-> NoneVal, macro |-> <<>>]
       ELSE IF IndexOf(value_str, 46, 1) # 0
       THEN IF PyFloat(value_str).ok THEN FieldValue(PyFloat(value_str).value, <<>>)
            ELSE FieldValue(StrVal(value_str), <<>>)
       ELSE IF PyInt(value_str).ok THEN FieldValue(IntVal(PyInt(value_str).value), <<>>)
       ELSE FieldValue(StrVal(value_str), <<>>)

\* a field match: the key and the text after the "="
Field(key, text) == [key |-> key, text |-> text]

\* an entry match: the digits of the annotation and the field matches
Block(index_str, fields) == [index_str |-> index_str, fields |-> fields]

RECURSIVE FieldLoop(_, _, _, _, _)
\* lines 106-133
FieldLoop(fields, j, item, macros, enums) ==
    IF j > Len(fields) THEN [raised |-> "", item |-> item]
    ELSE LET r == ResolveField(fields[j].text, macros, enums)
             used == IF r.macro = <<>> THEN item
                     ELSE Set(item, "used_pstr_macros",
                              ListVal(Append(item["used_pstr_macros"].text, r.macro)))
         IN IF r.raised # "" THEN [raised |-> r.raised, item |-> item]
            ELSE FieldLoop(fields, j + 1, Set(used, fields[j].key, r.value), macros, enums)

\* lines 99-102
EntryIndex(block, current_index) ==
    IF block.index_str # <<>> THEN PyInt(block.index_str).value ELSE current_index

\* line 104
NewItem(index) ==
    [k \in {"index", "is_implemented", "used_pstr_macros"} |->
        IF k = "index" THEN IntVal(index)
        ELSE IF k = "is_implemented" THEN BoolVal(TRUE)
        ELSE ListVal(<<>>)]

\* lines 137-138
MarkImplemented(item) ==
    IF Get(item, "label", Get(item, "name", NoneVal)) = NoneVal
    THEN Set(item, "is_implemented", BoolVal(FALSE))
    ELSE item

RECURSIVE EntryLoop(_, _, _, _, _)
\* lines 92-142
EntryLoop(blocks, current_index, out, macros, enums) ==
    IF current_index >= Len(blocks) THEN ParseResult(out)
    ELSE LET block == blocks[current_index + 1]
             r == FieldLoop(block.fields, 1, NewItem(EntryIndex(block, current_index)),
                            macros, enums)
         IN IF r.raised # "" THEN [raised |-> r.raised, entries |-> <<>>]
            ELSE EntryLoop(blocks, current_index + 1, Append(out, MarkImplemented(r.item)),
                           macros, enums)

_parse_structs(blocks, macros, enums) == EntryLoop(blocks, 0, <<>>, macros, enums)

\* str.replace("PSTR_", ""): every occurrence goes, left to right
RECURSIVE RemovePSTR_(_)
RemovePSTR_(str) ==
    IF Len(str) >= 5 /\ SubSeq(str, 1, 5) = <<80, 83, 84, 82, 95>>
    THEN RemovePSTR_(SubSeq(str, 6, Len(str)))
    ELSE IF str = <<>> THEN <<>>
    ELSE <<str[1]>> \o RemovePSTR_(Tail(str))

\* an X_SENSOR match: the arguments the parser reads (groups 1, 2, 3, 6, 7,
\* 12 and 13); continuation lines are not among the texts of the model
Invocation(name_macro, label_macro, desc_macro, meas_type, cal_type, hash_str, pin_type) ==
    [name_macro |-> name_macro, label_macro |-> label_macro, desc_macro |-> desc_macro,
     meas_type |-> meas_type, cal_type |-> cal_type, hash_str |-> hash_str,
     pin_type |-> pin_type]

\* pstr_macros.get(macro) if macro != 'nullptr' else None
MacroOrNone(macro, macros) ==
    IF macro # Nullptr /\ macro \in DOMAIN macros THEN StrVal(macros[macro]) ELSE NoneVal

\* lines 175-208: the sensor of one invocation
XSensor(inv, index, macros) ==
    LET name_macro == Strip(inv.name_macro)
        label_macro == Strip(inv.label_macro)
        desc_macro == Strip(inv.desc_macro)
        hash_str == Strip(inv.hash_str)
        label == MacroOrNone(label_macro, macros)
        name_hash == IF StartsWith0x(hash_str)
                     THEN (IF PyIntBase16(hash_str).ok THEN PyIntBase16(hash_str).value ELSE 0)
                     ELSE (IF PyInt(hash_str).ok THEN PyInt(hash_str).value ELSE 0)
    IN [index |-> IntVal(index),
        name |-> StrVal(IF name_macro \in DOMAIN macros THEN macros[name_macro]
                        ELSE RemovePSTR_(name_macro)),
        label |-> label,
        description |-> MacroOrNone(desc_macro, macros),
        measurementType |-> StrVal(Strip(inv.meas_type)),
        calibrationType |-> StrVal(Strip(inv.cal_type)),
        nameHash |-> IntVal(name_hash),
        pinTypeRequirement |-> StrVal(Strip(inv.pin_type)),
        is_implemented |-> BoolVal(label # NoneVal),
        used_pstr_macros |-> ListVal(<<name_macro>> \o (IF label_macro # Nullptr
                                                        THEN <<label_macro>> ELSE <<>>))]

\* lines 172-212
_parse_x_macro_sensors(invocations, macros) ==
    ParseResult([i \in 1..Len(invocations) |-> XSensor(invocations[i], i - 1, macros)])

(***************************************************************************)
(* Inputs of the parser calls.                                             *)
(***************************************************************************)
MaxBlocks == 2

MaxValueLen == 3

\* PSTR_A is defined as "Ab", or the header defines no macro at all
MacroTables == {PSTR_A :> NameAb, <<>>}

EnumTables == {SENSOR_X :> 1, <<>>}

Annotations == {<<>>, <<48>>, <<49>>, <<50>>}

NamedFields == <<Field("name", PSTR_A)>>

\* entries that differ in their annotation only
IndexBlocks == {Block(a, NamedFields) : a \in Annotations}

\* the texts after the "=": 0, x, 1, a point and Z in every order, and the tokens
ValueAlphabet == {48, 120, 49, 46, 90}

ValueTexts ==
    UNION {[1..n -> ValueAlphabet] : n \in 0..MaxValueLen}
    \cup {Nullptr, TrueToken, FalseToken, PSTR_A, PSTR_B, SENSOR_X,
          <<48, 120, 49, 102, 32, 47, 47, 32, 99>>, <<32, 49, 32>>, <<45, 49>>, <<48, 88, 49>>, <<48, 120, 90, 90>>, <<49, 46, 49, 46, 49>>}

\* an entry with the text in its first field, followed by a plain entry
ValueEntries ==
    {<<Block(<<>>, <<Field("nameHash", v), Field("name", PSTR_A)>>),
       Block(<<>>, NamedFields)>> : v \in ValueTexts}

\* what an entry may say of its label and of its name
LabelTexts == {Nullptr, PSTR_A, PSTR_B, <<48>>, TrueToken}

NameTexts == {Nullptr, PSTR_A}

LabelFields ==
    {<<>>} \cup {<<Field("label", l)>> : l \in LabelTexts}
    \cup {<<Field("name", n)>> : n \in NameTexts}
    \cup {<<Field("name", n), Field("label", l)>> : n \in NameTexts, l \in LabelTexts}

LabelBlocks == {Block(<<>>, f) : f \in LabelFields}

StructInputs ==
    UNION {[1..n -> IndexBlocks] : n \in 0..MaxBlocks}
    \cup ValueEntries
    \cup UNION {[1..n -> LabelBlocks] : n \in 1..MaxBlocks}

Invocations ==
    {Invocation(n, l, Nullptr, <<77, 69, 65, 83, 85, 82, 69, 95, 84>>, <<67, 65, 76, 95, 78, 79, 78, 69>>, <<48, 120, 49, 70>>, PIN_ANALOG) :
        n \in {PSTR_A, PSTR_B}, l \in {Nullptr, PSTR_A, PSTR_B, <<110, 117, 108, 108, 112, 116, 114, 32>>}}

XInputs == UNION {[1..n -> Invocations] : n \in 1..MaxBlocks}

InitParse ==
    /\ pc = "call"
    /\ pstr_macros \in MacroTables
    /\ enum_constants \in EnumTables
    /\ \/ struct_content \in StructInputs /\ x_content = <<>>
       \/ struct_content = <<>> /\ x_content \in XInputs
    /\ registries = ParseResult(<<>>)
    /\ raised = ""
    /\ IdleHeaders /\ IdlePin /\ IdleTool
    /\ IdleHash /\ IdleRegistries /\ IdlePasses /\ IdleRun

CallParseStructs ==
    /\ pc = "call"
    /\ registries' = _parse_structs(struct_content, pstr_macros, enum_constants)
    /\ pc' = "parsed"
    /\ UNCHANGED <<hashVars, regVars, passVars, runVars, raised, toolVars, pinVars, headers,
                   struct_content, x_content, pstr_macros, enum_constants>>

CallParseXMacro ==
    /\ pc = "call"
    /\ registries' = _parse_x_macro_sensors(x_content, pstr_macros)
    /\ pc' = "parsed_x"
    /\ UNCHANGED <<hashVars, regVars, passVars, runVars, raised, toolVars, pinVars, headers,
                   struct_content, x_content, pstr_macros, enum_constants>>

NextParse == CallParseStructs \/ CallParseXMacro

SpecParse == InitParse /\ [][NextParse]_vars

(***************************************************************************)
(* Properties of the parsers.                                              *)
(***************************************************************************)
StructsParsed == pc = "parsed" /\ registries.raised = ""

Annotated(k) == struct_content[k].index_str # <<>>

AnnotationsDistinct ==
    \A i, j \in 1..Len(struct_content) :
        (i < j /\ Annotated(i) /\ Annotated(j))
            => PyInt(struct_content[i].index_str).value
               # PyInt(struct_content[j].index_str).value

\* the index of an entry is its annotation, or else its position from 0
IndexIsAnnotationOrPosition ==
    \A k \in 1..Len(registries.entries) :
        registries.entries[k]["index"] =
            IF Annotated(k) THEN IntVal(PyInt(struct_content[k].index_str).value)
            ELSE IntVal(k - 1)

IndicesUnique ==
    \A i, j \in 1..Len(registries.entries) :
        i # j => registries.entries[i]["index"] # registries.entries[j]["index"]

\* C21: every parsed entry has the index of its annotation, or its position
\* from 0 when it has none, and whenever the annotated indices of a block
\* differ from each other no two parsed entries have the same index.
ParsedIndicesUnique ==
    (StructsParsed /\ AnnotationsDistinct)
        => (Len(registries.entries) = Len(struct_content)
            /\ IndexIsAnnotationOrPosition /\ IndicesUnique)

\* what holds for C21: the assignment rule always, and uniqueness when the
\* annotated indices differ and every entry or no entry is annotated
IndicesUniqueWhenUniformlyAnnotated ==
    StructsParsed =>
        /\ Len(registries.entries) = Len(struct_content)
        /\ IndexIsAnnotationOrPosition
        /\ (/\ AnnotationsDistinct
            /\ \/ \A k \in 1..Len(struct_content) : Annotated(k)
               \/ \A k \in 1..Len(struct_content) : ~Annotated(k))
           => IndicesUnique

\* the fields of entry k are all among the keys of the parsed entry
FieldsStored(k) ==
    \A j \in 1..Len(struct_content[k].fields) :
        struct_content[k].fields[j].key \in DOMAIN registries.entries[k]

\* C22: _parse_structs never raises: whatever the text of a field, every
\* entry of the block is returned and every field of every entry has a
\* value stored under its key.
FieldResolutionNeverRaises ==
    pc = "parsed" =>
        /\ registries.raised = ""
        /\ Len(registries.entries) = Len(struct_content)
        /\ \A k \in 1..Len(struct_content) : FieldsStored(k)

\* a text that starts with 0x and is no hexadecimal literal
BadHex(text) == StartsWith0x(ValueStr(text)) /\ ~PyIntBase16(ValueStr(text)).ok

HasBadHex ==
    \E k \in 1..Len(struct_content) : \E j \in 1..Len(struct_content[k].fields) :
        /\ BadHex(struct_content[k].fields[j].text)
        /\ ValueStr(struct_content[k].fields[j].text) \notin DOMAIN pstr_macros
        /\ ValueStr(struct_content[k].fields[j].text) \notin DOMAIN enum_constants

\* what holds for C22: the parser raises ValueError exactly on a text that
\* starts with 0x and is no hexadecimal literal; every other text, a
\* malformed float among them, is stored and parsing goes on
OnlyBadHexRaises ==
    pc = "parsed" =>
        IF HasBadHex THEN registries.raised = "ValueError"
        ELSE /\ registries.raised = ""
             /\ Len(registries.entries) = Len(struct_content)
             /\ \A k \in 1..Len(struct_content) : FieldsStored(k)

\* a malformed float kept as its text, the fields and entries after it parsed
MalformedFloatKeptAsText ==
    /\ pc = "parsed" /\ registries.raised = ""
    /\ Len(registries.entries) = 2
    /\ registries.entries[1]["nameHash"] = StrVal(<<49, 46, 46>>)
    /\ "name" \in DOMAIN registries.entries[1]

\* the label of a parsed entry, or its name when it has no label key
LabelOrName(entry) == Get(entry, "label", Get(entry, "name", NoneVal))

\* C23: a parsed entry, of either form, is marked unimplemented exactly when
\* its label (its name, when it declares no label) is not a string; and
\* every entry, implemented or not, is returned at its position.
UnimplementedIffNoLabel ==
    (pc \in {"parsed", "parsed_x"} /\ registries.raised = "") =>
        /\ Len(registries.entries)
             = (IF pc = "parsed" THEN Len(struct_content) ELSE Len(x_content))
        /\ \A k \in 1..Len(registries.entries) :
              registries.entries[k]["is_implemented"] = BoolVal(FALSE)
                  <=> LabelOrName(registries.entries[k]).kind # "str"

\* what holds for C23: a struct-literal entry is unimplemented exactly when
\* the value is None (the text nullptr, or neither key there); an invocation
\* exactly when its label is nullptr or no macro of the header; entries keep
\* their positions
UnimplementedIffLabelIsNone ==
    (pc \in {"parsed", "parsed_x"} /\ registries.raised = "") =>
        /\ Len(registries.entries)
             = (IF pc = "parsed" THEN Len(struct_content) ELSE Len(x_content))
        /\ \A k \in 1..Len(registries.entries) :
              /\ registries.entries[k]["is_implemented"] = BoolVal(FALSE)
                    <=> LabelOrName(registries.entries[k]) = NoneVal
              /\ pc = "parsed_x" =>
                    (registries.entries[k]["is_implemented"] = BoolVal(TRUE)
                        <=> (/\ Strip(x_content[k].label_macro) # Nullptr
                             /\ Strip(x_content[k].label_macro) \in DOMAIN pstr_macros))

\* an entry without a label between two with one: it is unimplemented and the
\* entry after it has index 1
PlaceholderKeepsItsIndex ==
    /\ pc = "parsed" /\ registries.raised = ""
    /\ Len(registries.entries) = 2
    /\ registries.entries[1]["is_implemented"] = BoolVal(FALSE)
    /\ Get(registries.entries[1], "label", StrVal(<<>>)) = NoneVal
    /\ registries.entries[2]["is_implemented"] = BoolVal(TRUE)
    /\ registries.entries[2]["index"] = IntVal(1)

(***************************************************************************)
(* Structural parse failures of the validation run.                        *)
(***************************************************************************)
StructuralFailure == \E k \in DOMAIN headers : headers[k] \in {"missing", "no block"}

ValidationPasses == {"hash", "collisions", "references", "types", "config"}

\* C24: when a registry header is missing, or is there without its registry
\* block, the validation run aborts: no validation pass runs, no passed
\* status is printed, and the process does not end with status 0.
StructuralFailureIsFatal ==
    StructuralFailure =>
        /\ Range(completed) \cap ValidationPasses = {}
        /\ status \notin {"PASSED", "PASSED WITH WARNINGS"}
        /\ pc = "exited" => exit_code = 1

\* what holds for C24: a missing header ends the run with status 1 before
\* any pass
MissingHeaderIsFatal ==
    HeaderMissing =>
        /\ completed = <<>> /\ status = ""
        /\ pc \in {"load", "exited"}
        /\ pc = "exited" => exit_code = 1

\* the sensor header without a block, and the run through to PASSED
PassedWithoutSensorBlock ==
    /\ pc = "exited" /\ exit_code = 0
    /\ headers["sensors"] = "no block" /\ sensors = <<>>
    /\ status = "PASSED"

(***************************************************************************)
(* The pins of the input list while the tool adds, edits and deletes.      *)
(***************************************************************************)
\* no two inputs of the list have the same pin text, letter case aside,
\* unless it is the I2C marker
PairwiseDistinctPins(list) ==
    \A i, j \in 1..Len(list) :
        (i # j /\ Upper(list[i].pin) = Upper(list[j].pin)) => Upper(list[i].pin) = I2C

\* C25: from an input list whose non-I2C pins are pairwise distinct, the
\* empty list included, every add, edit and delete step of the tool leads to
\* a list in which no two inputs have the same pin, compared without regard
\* to letter case, the I2C marker excepted.
NoTwoInputsShareAPin ==
    /\ [](PairwiseDistinctPins(inputs))
    /\ [][PairwiseDistinctPins(inputs) => PairwiseDistinctPins(inputs')]_vars

\* two analog inputs on different pins, the second one added while A0 was taken
TwoInputsOnDistinctPins ==
    /\ pc = "save"
    /\ Len(inputs) = 2
    /\ inputs[1].pin = PinA0 /\ inputs[2].pin = PinA6
    /\ should_add_new

(***************************************************************************)
(* validate_pin on its own: a pin text, a platform, the pins in use and    *)
(* the requirement of the sensor.                                          *)
(***************************************************************************)
\* the letter A, the digits 1, 4 and 6, the minus sign and the blank
PinTextAlphabet == {65, 49, 52, 54, 45, 32}

PinTexts == UNION {[1..n -> PinTextAlphabet] : n \in 0..MaxPinLen} \cup {I2C}

\* three platforms of PLATFORM_LIMITS and one that is not in the table
PinPlatforms == {"uno", "megaatmega2560", "teensy40", "esp32"}

InitValidatePin ==
    /\ IdleHeaders /\ IdleParse
    /\ pc = "call"
    /\ pin_arg \in PinTexts
    /\ platform \in PinPlatforms
    /\ used_arg \in {<<>>, <<<<65, 52>>>>}
    /\ requirement_arg \in {NoRequirement, PIN_ANALOG, PIN_DIGITAL, PIN_I2C}
    /\ pin_error = ""
    /\ raised = ""
    /\ args_load = FALSE /\ generate_thin_libs = FALSE /\ document = NoDocument
    /\ config_inputs = <<>> /\ pin_errors = <<>> /\ inputs = <<>>
    /\ unified = <<>> /\ round_trip = <<>>
    /\ original_timestamp = NoTimestamp /\ config_modified = FALSE
    /\ should_add_new = FALSE /\ now = 0
    /\ target = NoFile /\ backup = NoFile /\ calibration_file = NoFile
    /\ thin_libraries = NoFile /\ writable = FALSE /\ messages = <<>>
    /\ IdleHash /\ IdleRegistries /\ IdlePasses /\ IdleRun

CallValidatePin ==
    /\ pc = "call"
    /\ pin_error' = validate_pin(pin_arg, platform, used_arg, requirement_arg)
    /\ pc' = "validated"
    /\ UNCHANGED <<hashVars, regVars, passVars, runVars, raised, toolVars, parseVars,
                   pin_arg, used_arg, requirement_arg>>

NextValidatePin == CallValidatePin

SpecValidatePin == InitValidatePin /\ [][NextValidatePin]_vars

\* validate_pin returned None for a pin that is not the I2C marker
AcceptedPin ==
    /\ pc = "validated" /\ pin_error = ""
    /\ parse_pin(pin_arg).type # "i2c"

\* C26: validate_pin returns None for a non-I2C pin only if its number n is
\* an analog pin with 0 <= n < the analog limit of the platform, or a digital
\* pin with 0 <= n < the digital limit that is not reserved; negative numbers
\* are turned down, and a platform not in the table has the limits of uno.
AcceptedPinIsInRange ==
    AcceptedPin =>
        LET parsed == parse_pin(pin_arg)
            known == platform \in {"uno", "megaatmega2560", "teensy36", "teensy40"}
            limits == PlatformLimits(IF known THEN platform ELSE "uno")
        IN \/ /\ parsed.type = "analog"
              /\ 0 <= parsed.num /\ parsed.num < limits.analog
           \/ /\ parsed.type = "digital"
              /\ 0 <= parsed.num /\ parsed.num < limits.digital
              /\ parsed.num \notin RESERVED_PINS

\* what holds for C26: an accepted pin is below the limit of its kind and not
\* a reserved digital pin, and a number at or above the limit is never accepted
AcceptedPinIsBelowLimit ==
    LET parsed == parse_pin(pin_arg)
        known == platform \in {"uno", "megaatmega2560", "teensy36", "teensy40"}
        limits == PlatformLimits(IF known THEN platform ELSE "uno")
    IN /\ AcceptedPin =>
            \/ parsed.type = "analog" /\ parsed.num < limits.analog
            \/ /\ parsed.type = "digital" /\ parsed.num < limits.digital
               /\ parsed.num \notin RESERVED_PINS
       /\ (pc = "validated" /\ parsed.type = "none") => pin_error = "Invalid pin format"

\* the analog pin A-1 accepted on a platform that is not in the table
NegativePinAccepted ==
    /\ AcceptedPin
    /\ pin_arg = <<65, 45, 49>> /\ platform = "esp32"
    /\ parse_pin(pin_arg) = Parsed("analog", 0 - 1)

(***************************************************************************)
(* The numbers typed after the choices e and d of the menu.                *)
(***************************************************************************)
\* idx is a position of the list as the menu prints it: 0..len(inputs)-1
PrintedPosition(idx) == idx >= 0 /\ idx < Len(inputs)

\* C27: in the menu of a loaded configuration, an edit or a delete with a
\* number that is not in 0..len(inputs)-1, a negative number included, is an
\* invalid selection and leaves the input list and the modified flag as they
\* were; a delete with a number in that range removes exactly that input and
\* keeps the others in their order.
OutOfRangeNumberChangesNothing ==
    [][\A idx \in EnteredNumbers :
          /\ (~PrintedPosition(idx)
                /\ (DeleteInputAt(idx) \/ \E ans \in PromptAnswers : EditInputAt(idx, ans)))
             => UNCHANGED <<inputs, config_modified>>
          /\ (PrintedPosition(idx) /\ DeleteInputAt(idx))
             => /\ Len(inputs') = Len(inputs) - 1
                /\ \A k \in 1..Len(inputs') :
                      inputs'[k] = IF k <= idx THEN inputs[k] ELSE inputs[k + 1]]_vars

\* what holds for C27: a number beyond both ends of the list is an invalid
\* selection that changes nothing, a number the list has, counted from the
\* front or, when negative, from the end, removes exactly that input
NumberBeyondTheListChangesNothing ==
    [][\A idx \in EnteredNumbers :
          /\ (Position(inputs, idx) = 0 /\ (EditInvalid \/ DeleteInvalid))
             => UNCHANGED <<inputs, config_modified>>
          /\ DeleteInputAt(idx)
             => /\ Len(inputs') = Len(inputs) - 1
                /\ \A k \in 1..Len(inputs') :
                      inputs'[k] = IF k < Position(inputs, idx) THEN inputs[k]
                                   ELSE inputs[k + 1]]_vars

\* the second of two loaded inputs is gone after a delete, as -1 removes it
LastInputDeleted ==
    /\ pc = "menu" /\ args_load
    /\ document.inputs = <<WithCalibration(OnBus, Thermistor), OnA0(1)>>
    /\ Len(inputs) = 1 /\ inputs[1].pin = I2C
    /\ config_modified /\ "d" \in Range(completed)

(***************************************************************************)
(* The input numbers of the finalized list, in the saved document and in   *)
(* the generated block.                                                    *)
(***************************************************************************)
\* the list is final: it has been numbered and is handed to the steps that write
Finalized == pc \in {"generate", "calibration", "thin", "ready"}

\* the lines of a file that declare the pin of an input
PinLines(content) == SelectSeq(content, LAMBDA l : l.kind = "INPUT_PIN")

\* C28: when the final input list is saved and handed to the generator,
\* whatever was loaded, added, edited and deleted before, its input numbers
\* are 0..N-1 in list order: inputs[i].input_number = i for every i, the
\* saved document carries these numbers, and so does the generated block.
InputNumbersAreContiguous ==
    Finalized =>
        /\ \A i \in 1..Len(inputs) : inputs[i].input_number = i - 1
        /\ "save" \in Range(completed) =>
              /\ Len(document.inputs) = Len(inputs)
              /\ \A i \in 1..Len(inputs) : document.inputs[i].idx = i - 1
        /\ "config" \in Range(completed) =>
              /\ Len(PinLines(target)) = Len(inputs)
              /\ \A i \in 1..Len(inputs) : PinLines(target)[i].i = i - 1

\* input 1 of a loaded document is the only one left after a delete, and is
\* saved and generated as input 0
RemainingInputRenumbered ==
    /\ pc = "ready"
    /\ "d" \in Range(completed) /\ "save" \in Range(completed)
    /\ "config" \in Range(completed)
    /\ Len(inputs) = 1 /\ inputs[1].pin = PinA0 /\ inputs[1].input_number = 0
    /\ document.inputs[1].idx = 0
    /\ PinLines(target)[1].i = 0
    /\ ~("a" \in Range(completed)) /\ ~("e" \in Range(completed))

====
